---- MODULE Spec2Model ----
(***************************************************************************)
(* Federation bridge of OpenTAKServer.                                     *)
(*                                                                         *)
(* The repository holds two implementations of the bridge:                 *)
(*   - FederationService / FederationConnection                            *)
(*       (blueprints/federation/federation_service.py) with the durable    *)
(*       outbound queue (FederationOutbound) and three loops per           *)
(*       connection;                                                       *)
(*   - FederationManager / FederationConnection                            *)
(*       (federation/federation_manager.py) with the bus bridge.           *)
(* A run executes one of them; the variable impl says which.               *)
(***************************************************************************)
EXTENDS Integers, Sequences, FiniteSets, TLC

(***************************************************************************)
(* Bounds of the model.                                                    *)
(***************************************************************************)
\* Peers of the supervision and sender scenarios (SpecSup, SpecSend).
NumPeers == 1
\* Connection objects that outlive their place in the map.
MaxDetached == 1
\* Peers of the enqueue scenarios (SpecEnqueue); changes and rows of the queue.
NumQueuePeers == 2
NumWorkers == 2        \* concurrent executions of the enqueue helper
MaxChanges == 1
MaxRecords == 3
\* app_config.get('OTS_FEDERATION_MAX_RETRIES', 5): a configuration value.
MaxRetries == 2
\* .limit(10) of the sender loop's query, scaled with the queue bound.
BatchLimit == 2
MaxSockets == 3        \* sockets one connection creates in a run
MaxMessages == 2       \* live events forwarded to one connection in a run
MaxStream == 5         \* bytes a run receives
MaxRead == 3           \* recv(8192) scaled with the stream

Changes == 1..MaxChanges

VARIABLES
    impl,               \* "service" | "manager": the implementation that runs
    servers,            \* FederationServer rows: peer id -> row
    missionChanges,     \* committed MissionChange rows: change id -> isFederatedChange
    outbound,           \* FederationOutbound rows in insertion order
    running,            \* FederationService.running
    connections,        \* FederationService.connections: peer id -> FederationConnection
    detached,           \* FederationConnection objects no longer in the map
                        \* whose threads have not all ended
    monPc,              \* position of the _monitor_loop thread
    monTodo,            \* servers of the current cycle not yet visited
    federations,        \* Federation rows: peer id -> row
    mgrRunning,         \* FederationManager.running
    mgrConnections,     \* FederationManager.connections: peer id -> FederationConnection
    mgrPc,              \* position of start() and of the _monitor_connections thread
    mgrTodo,            \* federations of the current loop not yet visited
    busPc,              \* position of the bus consumer (_on_message)
    busTodo,            \* connections of the message's snapshot not yet visited
    busDropped,         \* snapshot entries whose object has left the map since
    busSnap,            \* history: the ids of the message's snapshot
    busAttempted,       \* history: the ids send_cot was called for
    busSkipped,         \* history: the ids found not to push 'cot'
    poison,             \* an undecodable message: "absent", "queued" or "rejected"
    buffer,             \* _receive_loop: the local buffer
    received,           \* history: every byte recv() has returned, in order
    emitted,            \* history: the arguments of _process_federated_cot, in order
    lastPass,           \* history: the documents emitted after the latest recv()
    ev,                 \* history: the connect() call that just returned, if any
    cycPending,         \* history: peers without connected connection at the start
                        \* of the cycle, for which connect() has not run since
    cycDisabled,        \* history: peers with a connection in the map that were
                        \* not enabled at the start of the cycle
    cycConnects,        \* history: whether a monitor cycle has begun, and the peers
                        \* connect() was called for since the latest one began
    connObj,            \* a FederationConnection whose methods are called directly
    connRow,            \* the persisted row of that connection's peer
    sockets,            \* the sockets that connection has created: handle -> state
    storeFaults,        \* whether a write to the durable store may raise
    lock,               \* FederationConnection.lock: 0 or the thread that holds it
    thr,                \* the threads that call into conn: thread -> position
    counters,           \* the persisted messages_sent and messages_failed of that peer
    enq                 \* executions of queue_mission_change_for_federation in
                        \* progress: worker -> position, change, rows added

dbVars == <<servers, missionChanges, outbound>>
svcVars == <<running, connections, detached, monPc, monTodo>>
busHist == <<busSnap, busAttempted, busSkipped, poison>>
mgrVars == <<federations, mgrRunning, mgrConnections, mgrPc, mgrTodo, busPc, busTodo,
            busDropped, busHist>>
rxVars == <<buffer, received, emitted, lastPass>>
histVars == <<ev, cycPending, cycDisabled, cycConnects>>

connVars == <<connObj, connRow, sockets, storeFaults, lock, thr, counters, enq>>

vars == <<impl, dbVars, svcVars, mgrVars, rxVars, histVars, connVars>>

Peers == DOMAIN servers

NoEvent == [op |-> "none", peer |-> 0, ok |-> FALSE]

\* No monitor cycle has begun.
NoCycle == [open |-> FALSE, peers |-> {}]

\* The query that opens a monitor cycle has run.
NewCycle == [open |-> TRUE, peers |-> {}]

\* connect() is called for peer p.
Noted(c, p) == IF c.open THEN [c EXCEPT !.peers = @ \cup {p}] ELSE c
ConnectEvent(p, ok) == [op |-> "connect", peer |-> p, ok |-> ok]

(***************************************************************************)
(* FederationConnection (federation_service.py)                            *)
(***************************************************************************)

\* FederationConnection.__init__ followed by a connect() whose socket connect
\* succeeded: connected and running set, the three loops started.
NewConnection(p) ==
    [peer |-> p, connected |-> TRUE, running |-> TRUE, sock |-> "open",
     send |-> "idle", recv |-> "run", hb |-> "run", batch |-> {}]

ThreadsAlive(o) == o.send # "done" \/ o.recv # "done" \/ o.hb # "done"

\* while self.running and self.connected
LoopCondition(o) == o.running /\ o.connected

\* FederationConnection.disconnect: flags cleared, socket closed.  The joins
\* are bounded (timeout=5): a loop may still be alive when disconnect returns.
disconnect(o) == [o EXCEPT !.running = FALSE, !.connected = FALSE, !.sock = "closed"]

(***************************************************************************)
(* FederationConnection loops.  Each loop is a thread of one connection    *)
(* object; a step is given as the object after the step.                   *)
(***************************************************************************)

\* _receive_loop: a zero-length read, or any socket error other than a
\* timeout (a read on a socket closed by disconnect() included).
recv_closed(o) == [o EXCEPT !.connected = FALSE, !.recv = "done"]

\* _receive_loop: the loop condition is found false.
recv_exit(o) == [o EXCEPT !.recv = "done"]

\* _heartbeat_loop: the loop condition is found false after the sleep.
\* Variant: the heartbeat loop does not look at the flags again.
HbStays(o) == o

hb_exit(o) == [o EXCEPT !.hb = "done"]

\* _send_loop: the loop condition is found false.
send_exit(o) == [o EXCEPT !.send = "done"]

\* The rows the sender loop's query may return for peer p:
\* filter_by(federation_server_id, sent=False).filter(retry_count < max).
Eligible(p) ==
    {i \in 1..Len(outbound) :
        /\ outbound[i].peer = p
        /\ ~outbound[i].sent
        /\ outbound[i].retry_count < MaxRetries}

Min2(a, b) == IF a < b THEN a ELSE b

\* .limit(10).all() without ORDER BY: any BatchLimit rows among the eligible.
SelectBatch(p) ==
    {B \in SUBSET Eligible(p) : Cardinality(B) = Min2(BatchLimit, Cardinality(Eligible(p)))}

\* _send_loop: the query of one poll; the rows are loaded into the session.
send_poll(o, B) ==
    [o EXCEPT !.send = "batch",
              !.batch = {[id |-> i, rc |-> outbound[i].retry_count] : i \in B}]

\* The update of one row at the end of a send attempt: on success sent is
\* set; on an exception retry_count becomes the loaded value plus one.
\* Variant: a failed send leaves retry_count as it is.
RetryUnchanged(rc) == rc

RetryAfterFailure(rc) == rc + 1

\* str(e)[:1000]: a text is modelled by its length; the exceptions carry a
\* text of just the limit or of one character more.
ErrorTextLimit == 1000
ErrorTexts == {ErrorTextLimit, ErrorTextLimit + 1}
Truncate(n) == Min2(n, ErrorTextLimit)

\* last_error = None
NoError == 0

\* The row after one send attempt; err is the text of the exception.
SendResult(row, loaded, ok, err) ==
    IF ok THEN [row EXCEPT !.sent = TRUE, !.sent_at = TRUE, !.last_error = NoError]
          ELSE [row EXCEPT !.retry_count = RetryAfterFailure(loaded),
                           !.last_retry_at = TRUE,
                           !.last_error = Truncate(err)]

\* Variant: the rows that were sent are deleted from the queue.
IsKept(row) == ~row.sent
OutboundPurged(o, okset, err) ==
    SelectSeq([i \in 1..Len(outbound) |->
                  IF i \in okset THEN [outbound[i] EXCEPT !.sent = TRUE] ELSE outbound[i]],
              IsKept)

\* _send_loop: the for loop over the batch and the commit of the poll.
\* okset: the rows whose sendall() returned; err: the exceptions of the rest.
OutboundAfterBatch(o, okset, err) ==
    [i \in 1..Len(outbound) |->
        IF \E b \in o.batch : b.id = i
        THEN SendResult(outbound[i], (CHOOSE b \in o.batch : b.id = i).rc, i \in okset,
                        IF i \in okset THEN NoError ELSE err[i])
        ELSE outbound[i]]

BatchIds(o) == {b.id : b \in o.batch}

send_done(o) == [o EXCEPT !.send = "idle", !.batch = {}]

(***************************************************************************)
(* Enqueue (federation_helper.py, FederationService.queue_mission_change)  *)
(***************************************************************************)

\* Variant: every change is federated, whatever its tag.
should_federate_always(isFederated) == TRUE

\* should_federate_mission_change
should_federate_mission_change(isFederated) == ~isFederated

\* Variant: filter_by(enabled=True) alone.
EnabledServers == {p \in Peers : servers[p].enabled}

\* filter_by(enabled=True, sync_missions=True)
MissionSyncServers == {p \in Peers : servers[p].enabled /\ servers[p].sync_missions}

Existing(q, p, c) == \E i \in 1..Len(q) : q[i].peer = p /\ q[i].change = c

\* retry_count of a FederationOutbound row created without one.
DefaultRetryCount == 0

HelperOutbound(p, c) ==
    [peer |-> p, change |-> c, sent |-> FALSE, retry_count |-> 0,
     sent_at |-> FALSE, last_retry_at |-> FALSE, last_error |-> NoError]

ServiceOutbound(p, c) ==
    [peer |-> p, change |-> c, sent |-> FALSE, retry_count |-> DefaultRetryCount,
     sent_at |-> FALSE, last_retry_at |-> FALSE, last_error |-> NoError]

SetMin(S) == CHOOSE x \in S : \A y \in S : x <= y

\* queue_mission_change_for_federation: the loop over the servers.
RECURSIVE queue_mission_change_for_federation(_, _, _)
queue_mission_change_for_federation(q, todo, c) ==
    IF todo = {} THEN q
    ELSE LET p == SetMin(todo) IN
         queue_mission_change_for_federation(
             IF Existing(q, p, c) THEN q ELSE Append(q, HelperOutbound(p, c)),
             todo \ {p}, c)

\* FederationService.queue_mission_change: the loop over the servers.
RECURSIVE queue_mission_change(_, _, _)
queue_mission_change(q, todo, c) ==
    IF todo = {} THEN q
    ELSE LET p == SetMin(todo) IN
         queue_mission_change(Append(q, ServiceOutbound(p, c)), todo \ {p}, c)

(***************************************************************************)
(* FederationService: the connection map and the monitor loop              *)
(***************************************************************************)

\* An object dropped from the map lives on while one of its threads does
\* (the thread holds the object); after that it is collected.
Keep(o) == IF ThreadsAlive(o) THEN {o} ELSE {}

Without(f, S) == [q \in DOMAIN f \ S |-> f[q]]
With(f, p, o) == [q \in DOMAIN f \cup {p} |-> IF q = p THEN o ELSE f[q]]

\* filter_by(enabled=True, connection_type=FederationServer.OUTBOUND)
EnabledOutbound == {p \in Peers : servers[p].enabled /\ servers[p].connection_type = "outbound"}

\* Variant: if server.id not in self.connections
NotInMap(p) == p \notin DOMAIN connections

\* if server.id not in self.connections or not self.connections[server.id].connected
NeedsConnect(p) == p \notin DOMAIN connections \/ ~connections[p].connected

Connected(p) == p \in DOMAIN connections /\ connections[p].connected

\* Variant: connect() writes 'connected' whatever the socket did.
StatusAlwaysConnected(ok) == "connected"

\* connect(): the status written to the FederationServer row.
StatusAfterConnect(ok) == IF ok THEN "connected" ELSE "error"

\* FederationService.start
Start ==
    /\ impl = "service"
    /\ monPc = "init"
    /\ running' = TRUE
    /\ monPc' = "sleep"
    /\ ev' = NoEvent
    /\ UNCHANGED <<impl, connVars, cycConnects, rxVars, mgrVars, dbVars, connections, detached, monTodo, cycPending, cycDisabled>>

\* _monitor_loop: while self.running; the query that opens a cycle.
MonQuery ==
    /\ monPc = "sleep"
    /\ running
    /\ monPc' = "iter"
    /\ monTodo' = EnabledOutbound
    /\ cycPending' = {p \in EnabledOutbound : ~Connected(p)}
    /\ cycDisabled' = {p \in Peers : Connected(p) /\ ~servers[p].enabled}
    /\ cycConnects' = NewCycle
    /\ ev' = NoEvent
    /\ UNCHANGED <<impl, connVars, rxVars, mgrVars, dbVars, running, connections, detached>>

\* _monitor_loop: the loop ends once running is false.
MonExit ==
    /\ monPc = "sleep"
    /\ ~running
    /\ monPc' = "done"
    /\ ev' = NoEvent
    /\ UNCHANGED <<impl, connVars, cycConnects, rxVars, mgrVars, dbVars, running, connections, detached, monTodo,
                   cycPending, cycDisabled>>

\* Variant: a connect() that fails ends the for loop of the cycle.
CycleAborted(todo, p, ok) == IF ok THEN todo \ {p} ELSE {}

\* The servers left to the for loop of a cycle after server p: connect()
\* returns False on failure and the loop goes on.
AfterPeer(todo, p, ok) == todo \ {p}

\* _monitor_loop: one server of the for loop; connect() on a new object.
MonVisit(p) ==
    /\ monPc = "iter"
    /\ p \in monTodo
    /\ IF NeedsConnect(p)
       THEN \E ok \in BOOLEAN :
              /\ monTodo' = AfterPeer(monTodo, p, ok)
              /\ servers' = [servers EXCEPT ![p].status = StatusAfterConnect(ok)]
              /\ ev' = ConnectEvent(p, ok)
              /\ cycPending' = cycPending \ {p}
              /\ cycConnects' = Noted(cycConnects, p)
              /\ IF ok
                 THEN /\ connections' = With(connections, p, NewConnection(p))
                      /\ detached' = detached \cup
                            (IF p \in DOMAIN connections THEN Keep(connections[p]) ELSE {})
                      /\ Cardinality(detached') <= MaxDetached
                 ELSE UNCHANGED <<connections, detached>>
       ELSE /\ monTodo' = monTodo \ {p}
            /\ ev' = NoEvent
            /\ UNCHANGED <<servers, connections, detached, cycPending, cycConnects>>
    /\ UNCHANGED <<impl, connVars, rxVars, mgrVars, missionChanges, outbound, running, monPc, cycDisabled>>

\* _monitor_loop: "Remove disconnected connections", then the sleep.
NotConnectedIds == {p \in DOMAIN connections : ~connections[p].connected}

MonSweep ==
    /\ monPc = "iter"
    /\ monTodo = {}
    /\ connections' = Without(connections, NotConnectedIds)
    /\ detached' = detached \cup UNION {Keep(connections[p]) : p \in NotConnectedIds}
    /\ Cardinality(detached') <= MaxDetached
    /\ monPc' = "sleep"
    /\ ev' = NoEvent
    /\ UNCHANGED <<impl, connVars, cycConnects, rxVars, mgrVars, dbVars, running, monTodo, cycPending, cycDisabled>>

\* FederationService.stop: every connection disconnected, the map cleared.
Stop ==
    /\ impl = "service"
    /\ running
    /\ running' = FALSE
    /\ servers' = [p \in Peers |->
                     IF p \in DOMAIN connections
                     THEN [servers[p] EXCEPT !.status = "disconnected"]
                     ELSE servers[p]]
    /\ connections' = Without(connections, DOMAIN connections)
    /\ detached' = detached \cup
                     UNION {Keep(disconnect(connections[p])) : p \in DOMAIN connections}
    /\ ev' = NoEvent
    /\ UNCHANGED <<impl, connVars, cycConnects, rxVars, mgrVars, missionChanges, outbound, monPc, monTodo, cycPending, cycDisabled>>

(***************************************************************************)
(* Steps of the loops of a connection held by the map (Map...) and of one  *)
(* dropped from it (Det...).                                               *)
(***************************************************************************)

MapStep(p, o2) ==
    /\ connections' = [connections EXCEPT ![p] = o2]
    /\ ev' = NoEvent
    /\ UNCHANGED <<impl, connVars, cycConnects, rxVars, mgrVars, servers, missionChanges, running, detached, monPc, monTodo,
                   cycPending, cycDisabled>>

DetStep(o, o2) ==
    /\ detached' = (detached \ {o}) \cup Keep(o2)
    /\ ev' = NoEvent
    /\ UNCHANGED <<impl, connVars, cycConnects, rxVars, mgrVars, servers, missionChanges, running, connections, monPc, monTodo,
                   cycPending, cycDisabled>>

MapRecvClosed(p) ==
    /\ p \in DOMAIN connections
    /\ connections[p].recv = "run"
    /\ MapStep(p, recv_closed(connections[p]))
    /\ UNCHANGED outbound

DetRecvClosed(o) ==
    /\ o.recv = "run"
    /\ DetStep(o, recv_closed(o))
    /\ UNCHANGED outbound

MapHbExit(p) ==
    /\ p \in DOMAIN connections
    /\ connections[p].hb = "run"
    /\ ~LoopCondition(connections[p])
    /\ MapStep(p, hb_exit(connections[p]))
    /\ UNCHANGED outbound

DetHbExit(o) ==
    /\ o.hb = "run"
    /\ ~LoopCondition(o)
    /\ DetStep(o, hb_exit(o))
    /\ UNCHANGED outbound

MapSendExit(p) ==
    /\ p \in DOMAIN connections
    /\ connections[p].send = "idle"
    /\ ~LoopCondition(connections[p])
    /\ MapStep(p, send_exit(connections[p]))
    /\ UNCHANGED outbound

DetSendExit(o) ==
    /\ o.send = "idle"
    /\ ~LoopCondition(o)
    /\ DetStep(o, send_exit(o))
    /\ UNCHANGED outbound

\* _send_loop: the query of a poll that returns rows (a poll that returns
\* none changes nothing).
MapSendPoll(p) ==
    /\ p \in DOMAIN connections
    /\ connections[p].send = "idle"
    /\ LoopCondition(connections[p])
    /\ \E B \in SelectBatch(p) :
         /\ B # {}
         /\ MapStep(p, send_poll(connections[p], B))
    /\ UNCHANGED outbound

\* _send_loop: the sends of the batch and the commit.
MapSendBatch(p) ==
    /\ p \in DOMAIN connections
    /\ connections[p].send = "batch"
    /\ \E okset \in SUBSET BatchIds(connections[p]) :
         \E err \in [BatchIds(connections[p]) \ okset -> ErrorTexts] :
             outbound' = OutboundAfterBatch(connections[p], okset, err)
    /\ MapStep(p, send_done(connections[p]))

DetSendBatch(o) ==
    /\ o.send = "batch"
    /\ \E okset \in SUBSET BatchIds(o) :
         \E err \in [BatchIds(o) \ okset -> ErrorTexts] :
             outbound' = OutboundAfterBatch(o, okset, err)
    /\ DetStep(o, send_done(o))

(***************************************************************************)
(* The domain layer and the admin API                                      *)
(***************************************************************************)

\* A mission change is committed (c new) or its enqueue is retried by the
\* producer; the change is enqueued if it should be federated.
CommitViaHelper(c) ==
    /\ impl = "service"
    /\ \E fed \in (IF c \in DOMAIN missionChanges THEN {missionChanges[c]} ELSE BOOLEAN) :
         /\ missionChanges' = With(missionChanges, c, fed)
         /\ outbound' = IF should_federate_mission_change(fed)
                        THEN queue_mission_change_for_federation(outbound, MissionSyncServers, c)
                        ELSE outbound
    /\ Len(outbound') <= MaxRecords
    /\ ev' = NoEvent
    /\ UNCHANGED <<impl, connVars, cycConnects, rxVars, mgrVars, servers, svcVars, cycPending, cycDisabled>>

CommitViaService(c) ==
    /\ impl = "service"
    /\ \E fed \in (IF c \in DOMAIN missionChanges THEN {missionChanges[c]} ELSE BOOLEAN) :
         /\ missionChanges' = With(missionChanges, c, fed)
         /\ outbound' = IF should_federate_mission_change(fed)
                        THEN queue_mission_change(outbound, MissionSyncServers, c)
                        ELSE outbound
    /\ Len(outbound') <= MaxRecords
    /\ ev' = NoEvent
    /\ UNCHANGED <<impl, connVars, cycConnects, rxVars, mgrVars, servers, svcVars, cycPending, cycDisabled>>

\* Variant: pending_changes counts the records the sender loop still selects.
StatusEligibleOnly(q, p) ==
    LET mine == {i \in 1..Len(q) : q[i].peer = p}
        sent == {i \in mine : q[i].sent}
    IN  [total_changes |-> Cardinality(mine),
         sent_changes |-> Cardinality(sent),
         pending_changes |->
             Cardinality({i \in mine \ sent : q[i].retry_count < MaxRetries})]

\* get_federation_server_status: the 'stats' of the response, from the
\* FederationOutbound rows q: two filter_by(...).count() and a difference.
get_federation_server_status(q, p) ==
    LET total_changes == Cardinality({i \in 1..Len(q) : q[i].peer = p})
        sent_changes == Cardinality({i \in 1..Len(q) : q[i].peer = p /\ q[i].sent})
    IN  [total_changes |-> total_changes,
         sent_changes |-> sent_changes,
         pending_changes |-> total_changes - sent_changes]

StatusEvent(p, stats) == [op |-> "status", peer |-> p, ok |-> TRUE, stats |-> stats]

\* GET /api/federation/servers/<id>/status for an existing server.
StatusRequest(p) ==
    /\ impl = "service"
    /\ ev' = StatusEvent(p, get_federation_server_status(outbound, p))
    /\ UNCHANGED <<impl, connVars, cycConnects, rxVars, mgrVars, dbVars, svcVars, cycPending, cycDisabled>>

\* Concurrent executions of queue_mission_change_for_federation, each in its
\* own session: rows added to a session reach the table at its commit.
Workers == 1..NumWorkers

IdleWorker == [pc |-> "idle", change |-> 0, rows |-> {}]

\* The servers for which "existing = ....first()" finds no committed row.
NotQueued(q, c) == {p \in MissionSyncServers : ~Existing(q, p, c)}

\* db.session.commit(): the rows of the session are inserted.
RECURSIVE Inserted(_, _, _)
Inserted(q, rows, c) ==
    IF rows = {} THEN q
    ELSE LET p == SetMin(rows) IN
         Inserted(Append(q, HelperOutbound(p, c)), rows \ {p}, c)

\* queue_mission_change_for_federation up to its commit: the query of the
\* servers and, for each, the existence check and db.session.add.
HelperCheck(w, c) ==
    /\ impl = "service"
    /\ enq[w].pc = "idle"
    /\ c \in DOMAIN missionChanges
    /\ should_federate_mission_change(missionChanges[c])
    /\ enq' = [enq EXCEPT ![w] = [pc |-> "commit", change |-> c,
                                  rows |-> NotQueued(outbound, c)]]
    /\ ev' = NoEvent
    /\ UNCHANGED <<impl, dbVars, svcVars, mgrVars, rxVars, cycPending, cycDisabled,
                   cycConnects, connObj, connRow, sockets, storeFaults, lock, thr,
                   counters>>

\* queue_mission_change_for_federation: db.session.commit() and the return.
HelperCommit(w) ==
    /\ enq[w].pc = "commit"
    /\ outbound' = Inserted(outbound, enq[w].rows, enq[w].change)
    /\ Len(outbound') <= MaxRecords
    /\ enq' = [enq EXCEPT ![w] = IdleWorker]
    /\ ev' = NoEvent
    /\ UNCHANGED <<impl, servers, missionChanges, svcVars, mgrVars, rxVars, cycPending,
                   cycDisabled, cycConnects, connObj, connRow, sockets, storeFaults,
                   lock, thr, counters>>

\* update_federation_server: setattr(server, field, data[field]) for the
\* fields enabled and sync_missions.
AdminUpdate(p, field, b) ==
    /\ impl = "service"
    /\ servers[p][field] # b
    /\ servers' = [servers EXCEPT ![p][field] = b]
    /\ ev' = NoEvent
    /\ UNCHANGED <<impl, connVars, cycConnects, rxVars, mgrVars, missionChanges, outbound, svcVars, cycPending, cycDisabled>>

(***************************************************************************)
(* The framing of _receive_loop                                            *)
(***************************************************************************)

\* A byte is one of three: the two bytes of the closing marker, which like
\* b"</event>" does not overlap itself, and any other byte.
Bytes == {"x", "<", ">"}
Marker == <<"<", ">">>

\* b"</event>" in buf[i:], for the positions i..Len(buf)
MarkerAt(buf, i) ==
    /\ i + Len(Marker) - 1 <= Len(buf)
    /\ SubSeq(buf, i, i + Len(Marker) - 1) = Marker

Contains(buf) == \E i \in 1..Len(buf) : MarkerAt(buf, i)

\* Variant: buffer.rfind(b"</event>"), the last occurrence.
FindLast(buf) ==
    CHOOSE i \in 1..Len(buf) : MarkerAt(buf, i) /\ \A j \in (i + 1)..Len(buf) : ~MarkerAt(buf, j)

\* buffer.find(b"</event>"), 1-based
Find(buf) == SetMin({i \in 1..Len(buf) : MarkerAt(buf, i)})

\* Variant: if b"</event>" in buffer, one message a pass.
ProcessOnce(buf, out) ==
    IF Contains(buf)
    THEN LET end_idx == Find(buf) + Len(Marker) - 1
         IN  [buffer |-> SubSeq(buf, end_idx + 1, Len(buf)),
              out |-> Append(out, SubSeq(buf, 1, end_idx))]
    ELSE [buffer |-> buf, out |-> out]

\* while b"</event>" in buffer: the messages cut from the buffer and what
\* stays in it.
RECURSIVE ProcessBuffer(_, _)
ProcessBuffer(buf, out) ==
    IF Contains(buf)
    THEN LET end_idx == Find(buf) + Len(Marker) - 1
         IN  ProcessBuffer(SubSeq(buf, end_idx + 1, Len(buf)),
                           Append(out, SubSeq(buf, 1, end_idx)))
    ELSE [buffer |-> buf, out |-> out]

Chunks == UNION {[1..n -> Bytes] : n \in 1..MaxRead}

\* _receive_loop: recv() returns data; buffer += data; the inner while.
MapRecvData(p) ==
    /\ p \in DOMAIN connections
    /\ connections[p].recv = "run"
    /\ LoopCondition(connections[p])
    /\ \E data \in Chunks :
         /\ Len(received) + Len(data) <= MaxStream
         /\ received' = received \o data
         /\ LET r == ProcessBuffer(buffer \o data, <<>>)
            IN  /\ buffer' = r.buffer
                /\ emitted' = emitted \o r.out
                /\ lastPass' = r.out
    /\ ev' = NoEvent
    /\ UNCHANGED <<impl, connVars, cycConnects, dbVars, svcVars, mgrVars, cycPending, cycDisabled>>

TimeoutEvent(p) == [op |-> "timeout", peer |-> p, ok |-> TRUE]

\* Variant: a read timeout is handled like any other socket error.
TimeoutCloses(o) == [o EXCEPT !.connected = FALSE, !.recv = "done"]

\* _receive_loop: except socket.timeout: continue
recv_timeout(o) == o

\* _receive_loop: recv() raises socket.timeout; buffer is a local of the
\* loop's frame and stays as it is.
MapRecvTimeout(p) ==
    /\ p \in DOMAIN connections
    /\ connections[p].recv = "run"
    /\ LoopCondition(connections[p])
    /\ connections' = [connections EXCEPT ![p] = recv_timeout(connections[p])]
    /\ ev' = TimeoutEvent(p)
    /\ UNCHANGED <<impl, connVars, cycConnects, rxVars, mgrVars, dbVars, running, detached, monPc,
                   monTodo, cycPending, cycDisabled>>

(***************************************************************************)
(* FederationManager and its FederationConnection (federation_manager.py)  *)
(***************************************************************************)

Feds == DOMAIN federations

\* FederationConnection.__init__
NewMgrConnection == [connected |-> FALSE, socket |-> "none"]

\* FederationConnection.connect on a connection that is not connected: the
\* connection after the call, and the status written by _update_status.
mgr_connect(conn, ok) ==
    IF ok THEN [conn EXCEPT !.connected = TRUE, !.socket = "open"]
          ELSE [conn EXCEPT !.connected = FALSE, !.socket = "none"]

MgrStatusAfterConnect(ok) == IF ok THEN "connected" ELSE "error"

\* FederationConnection.disconnect
mgr_disconnect(conn) == [conn EXCEPT !.connected = FALSE, !.socket = "none"]

\* FederationConnection.send_cot after the write failed.
mgr_send_failed(conn) == [conn EXCEPT !.connected = FALSE, !.socket = "none"]

\* filter_by(enabled=True)
EnabledFeds == {p \in Feds : federations[p].enabled}

MgrConnected(p) == p \in DOMAIN mgrConnections /\ mgrConnections[p].connected

SetStatus(p, st) == federations' = [federations EXCEPT ![p].connection_status = st]

\* FederationManager.start: running set, the query of _load_federations.
MgrStart ==
    /\ impl = "manager"
    /\ mgrPc = "init"
    /\ mgrRunning' = TRUE
    /\ mgrPc' = "load"
    /\ mgrTodo' = EnabledFeds
    /\ ev' = NoEvent
    /\ UNCHANGED <<impl, connVars, cycConnects, rxVars, busHist, dbVars, svcVars, federations, mgrConnections, busPc, busTodo,
                   busDropped, cycPending, cycDisabled>>

\* _load_federations: one federation of the for loop.
MgrLoad(p) ==
    /\ mgrPc = "load"
    /\ p \in mgrTodo
    /\ mgrTodo' = mgrTodo \ {p}
    /\ IF p \notin DOMAIN mgrConnections
       THEN \E ok \in BOOLEAN :
              /\ mgrConnections' = With(mgrConnections, p, mgr_connect(NewMgrConnection, ok))
              /\ SetStatus(p, MgrStatusAfterConnect(ok))
              /\ ev' = ConnectEvent(p, ok)
       ELSE /\ ev' = NoEvent
            /\ UNCHANGED <<mgrConnections, federations>>
    /\ UNCHANGED <<impl, connVars, cycConnects, rxVars, busHist, dbVars, svcVars, mgrRunning, mgrPc, busPc, busTodo, busDropped,
                   cycPending, cycDisabled>>

\* start(): the monitor thread is started (it sleeps first if running is
\* still set), then the consumer.
MgrLoadDone ==
    /\ mgrPc = "load"
    /\ mgrTodo = {}
    /\ mgrPc' = IF mgrRunning THEN "sleep" ELSE "done"
    /\ busPc' = "idle"
    /\ ev' = NoEvent
    /\ UNCHANGED <<impl, connVars, cycConnects, rxVars, busHist, dbVars, svcVars, federations, mgrRunning, mgrConnections,
                   mgrTodo, busTodo, busDropped, cycPending, cycDisabled>>

\* _monitor_connections: after the sleep, the query of the enabled federations.
MgrMonQuery ==
    /\ mgrPc = "sleep"
    /\ mgrPc' = "remove"
    /\ mgrTodo' = EnabledFeds
    /\ cycPending' = {p \in EnabledFeds : ~MgrConnected(p)}
    /\ cycDisabled' = {p \in Feds : MgrConnected(p) /\ ~federations[p].enabled}
    /\ cycConnects' = NewCycle
    /\ ev' = NoEvent
    /\ UNCHANGED <<impl, connVars, rxVars, busHist, dbVars, svcVars, federations, mgrRunning, mgrConnections,
                   busPc, busTodo, busDropped>>

\* _monitor_connections: "Remove disabled federations".
NotEnabledIds == DOMAIN mgrConnections \ mgrTodo

MgrMonRemove ==
    /\ mgrPc = "remove"
    /\ mgrPc' = "add"
    /\ mgrConnections' = Without(mgrConnections, NotEnabledIds)
    /\ federations' = [p \in Feds |->
                         IF p \in NotEnabledIds
                         THEN [federations[p] EXCEPT !.connection_status = "disconnected"]
                         ELSE federations[p]]
    /\ busDropped' = busDropped \cup (busTodo \cap NotEnabledIds)
    /\ ev' = NoEvent
    /\ UNCHANGED <<impl, connVars, cycConnects, rxVars, busHist, dbVars, svcVars, mgrRunning, mgrTodo, busPc, busTodo,
                   cycPending, cycDisabled>>

\* _monitor_connections: one federation of "Add new federations".
MgrMonAdd(p) ==
    /\ mgrPc = "add"
    /\ p \in mgrTodo
    /\ IF ~MgrConnected(p)
       THEN \E ok \in BOOLEAN :
              /\ mgrTodo' = AfterPeer(mgrTodo, p, ok)
              /\ mgrConnections' =
                    With(mgrConnections, p,
                         mgr_connect(IF p \in DOMAIN mgrConnections
                                     THEN mgrConnections[p] ELSE NewMgrConnection, ok))
              /\ SetStatus(p, MgrStatusAfterConnect(ok))
              /\ ev' = ConnectEvent(p, ok)
              /\ cycPending' = cycPending \ {p}
              /\ cycConnects' = Noted(cycConnects, p)
       ELSE /\ mgrTodo' = mgrTodo \ {p}
            /\ ev' = NoEvent
            /\ UNCHANGED <<mgrConnections, federations, cycPending, cycConnects>>
    /\ UNCHANGED <<impl, connVars, rxVars, busHist, dbVars, svcVars, mgrRunning, mgrPc, busPc, busTodo, busDropped,
                   cycDisabled>>

\* _monitor_connections: the end of the loop body; while self.running.
MgrMonCycleEnd ==
    /\ mgrPc = "add"
    /\ mgrTodo = {}
    /\ mgrPc' = IF mgrRunning THEN "sleep" ELSE "done"
    /\ ev' = NoEvent
    /\ UNCHANGED <<impl, connVars, cycConnects, rxVars, busHist, dbVars, svcVars, federations, mgrRunning, mgrConnections,
                   mgrTodo, busPc, busTodo, busDropped, cycPending, cycDisabled>>

\* FederationManager.stop: every connection of the map disconnected; the
\* map keeps its entries.
MgrStop ==
    /\ impl = "manager"
    /\ mgrRunning
    /\ mgrRunning' = FALSE
    /\ mgrConnections' = [p \in DOMAIN mgrConnections |-> mgr_disconnect(mgrConnections[p])]
    /\ federations' = [p \in Feds |->
                         IF p \in DOMAIN mgrConnections
                         THEN [federations[p] EXCEPT !.connection_status = "disconnected"]
                         ELSE federations[p]]
    /\ ev' = NoEvent
    /\ UNCHANGED <<impl, connVars, cycConnects, rxVars, busHist, dbVars, svcVars, mgrPc, mgrTodo, busPc, busTodo, busDropped,
                   cycPending, cycDisabled>>

AckEvent == [op |-> "ack", peer |-> 0, ok |-> TRUE]
NackEvent(requeue) == [op |-> "nack", peer |-> 0, ok |-> requeue]

\* _on_message: a decodable message arrives; list(self.connections.items()).
BusMessage ==
    /\ busPc = "idle"
    /\ busPc' = "forward"
    /\ busTodo' = DOMAIN mgrConnections
    /\ busDropped' = {}
    /\ busSnap' = DOMAIN mgrConnections
    /\ busAttempted' = {}
    /\ busSkipped' = {}
    /\ ev' = NoEvent
    /\ UNCHANGED <<impl, connVars, cycConnects, rxVars, dbVars, svcVars, federations, mgrRunning, mgrConnections,
                   mgrPc, mgrTodo, poison, cycPending, cycDisabled>>

\* if federation and 'cot' in federation.get_push_data_types()
PushesCot(p) == federations[p].push_cot

\* Variant: the for loop ends at the first forward that fails.
AbortOnFailure(todo, p, ok) == IF ok THEN todo \ {p} ELSE {}

\* The entries left to the for loop after the entry of p: the try/except
\* around each entry lets the loop go on whatever the forward did.
AfterEntry(todo, p, ok) == todo \ {p}

\* _on_message: one connection of the snapshot that is not forwarded to.
BusSkip(p) ==
    /\ busPc = "forward"
    /\ p \in busTodo
    /\ ~PushesCot(p)
    /\ busTodo' = AfterEntry(busTodo, p, TRUE)
    /\ busDropped' = busDropped \ {p}
    /\ busSkipped' = busSkipped \cup {p}
    /\ ev' = NoEvent
    /\ UNCHANGED <<impl, connVars, cycConnects, rxVars, dbVars, svcVars, federations, mgrRunning, mgrConnections,
                   mgrPc, mgrTodo, busPc, busSnap, busAttempted, poison, cycPending,
                   cycDisabled>>

\* send_cot on a connected connection: the write, which returns or raises.
BusSend(p) ==
    /\ busPc = "forward"
    /\ p \in busTodo \ busDropped
    /\ PushesCot(p)
    /\ mgrConnections[p].connected
    /\ busAttempted' = busAttempted \cup {p}
    /\ \E ok \in BOOLEAN :
         /\ busTodo' = AfterEntry(busTodo, p, ok)
         /\ IF ok THEN UNCHANGED <<mgrConnections, federations>>
            ELSE /\ mgrConnections' = [mgrConnections EXCEPT ![p] = mgr_send_failed(@)]
                 /\ SetStatus(p, "error")
    /\ ev' = NoEvent
    /\ UNCHANGED <<impl, connVars, cycConnects, rxVars, dbVars, svcVars, mgrRunning, mgrPc, mgrTodo, busPc, busDropped,
                   busSnap, busSkipped, poison, cycPending, cycDisabled>>

\* send_cot on a connection that is not connected: "Try to reconnect".  A
\* connected connection stays in busTodo for the write.
BusReconnect(p) ==
    /\ busPc = "forward"
    /\ p \in busTodo \ busDropped
    /\ PushesCot(p)
    /\ ~mgrConnections[p].connected
    /\ busAttempted' = busAttempted \cup {p}
    /\ \E ok \in BOOLEAN :
         /\ mgrConnections' = [mgrConnections EXCEPT ![p] = mgr_connect(@, ok)]
         /\ SetStatus(p, MgrStatusAfterConnect(ok))
         /\ ev' = ConnectEvent(p, ok)
         /\ busTodo' = IF ok THEN busTodo ELSE AfterEntry(busTodo, p, ok)
    /\ cycPending' = cycPending \ {p}
    /\ cycConnects' = Noted(cycConnects, p)
    /\ UNCHANGED <<impl, connVars, rxVars, dbVars, svcVars, mgrRunning, mgrPc, mgrTodo, busPc, busDropped,
                   busSnap, busSkipped, poison, cycDisabled>>

\* send_cot on a connection object the monitor has disconnected and removed
\* from the map since the snapshot: the object reconnects, writes, and is
\* dropped with the snapshot.
BusDroppedSend(p) ==
    /\ busPc = "forward"
    /\ p \in busTodo \cap busDropped
    /\ PushesCot(p)
    /\ busDropped' = busDropped \ {p}
    /\ busAttempted' = busAttempted \cup {p}
    /\ \E ok \in BOOLEAN :
         /\ ev' = ConnectEvent(p, ok)
         /\ \E sent \in BOOLEAN :
              /\ SetStatus(p, IF ok /\ ~sent THEN "error" ELSE MgrStatusAfterConnect(ok))
              /\ busTodo' = AfterEntry(busTodo, p, ok /\ sent)
    /\ cycPending' = cycPending \ {p}
    /\ cycConnects' = Noted(cycConnects, p)
    /\ UNCHANGED <<impl, connVars, rxVars, dbVars, svcVars, mgrRunning, mgrConnections, mgrPc, mgrTodo,
                   busPc, busSnap, busSkipped, poison, cycDisabled>>

\* _on_message: basic_ack once the for loop is over.
BusAck ==
    /\ busPc = "forward"
    /\ busTodo = {}
    /\ busPc' = "idle"
    /\ ev' = AckEvent
    /\ UNCHANGED <<impl, connVars, cycConnects, rxVars, dbVars, svcVars, federations, mgrRunning, mgrConnections,
                   mgrPc, mgrTodo, busTodo, busDropped, busHist, cycPending, cycDisabled>>

\* _on_message: channel.basic_ack is issued inside the outer try and raises
\* (channel closed, connection reset); control passes to the outer handler.
BusAckRaises ==
    /\ busPc = "forward"
    /\ busTodo = {}
    /\ busPc' = "handler"
    /\ ev' = [AckEvent EXCEPT !.ok = FALSE]
    /\ UNCHANGED <<impl, connVars, cycConnects, rxVars, dbVars, svcVars, federations, mgrRunning, mgrConnections,
                   mgrPc, mgrTodo, busTodo, busDropped, busHist, cycPending, cycDisabled>>

\* _on_message: the outer handler issues basic_nack(requeue=False) for the
\* delivery tag whose basic_ack has just been issued.
BusHandlerNack ==
    /\ busPc = "handler"
    /\ busPc' = "idle"
    /\ ev' = NackEvent(FALSE)
    /\ UNCHANGED <<impl, connVars, cycConnects, rxVars, dbVars, svcVars, federations, mgrRunning, mgrConnections,
                   mgrPc, mgrTodo, busTodo, busDropped, busHist, cycPending, cycDisabled>>

\* A message whose body is not UTF-8 is published to the queue.
BusPublishPoison ==
    /\ impl = "manager"
    /\ poison = "absent"
    /\ poison' = "queued"
    /\ ev' = NoEvent
    /\ UNCHANGED <<impl, connVars, cycConnects, rxVars, dbVars, svcVars, federations, mgrRunning, mgrConnections,
                   mgrPc, mgrTodo, busPc, busTodo, busDropped, busSnap, busAttempted,
                   busSkipped, cycPending, cycDisabled>>

\* Variant: basic_nack(requeue=True).
RequeueAlways == TRUE

\* basic_nack(delivery_tag=method.delivery_tag, requeue=False)
NackRequeue == FALSE

\* The broker after a nack: the message goes back to the queue or is dropped.
AfterNack(requeue) == IF requeue THEN "queued" ELSE "rejected"

\* _on_message: body.decode('utf-8') raises; the outer handler rejects.
BusPoison ==
    /\ busPc = "idle"
    /\ poison = "queued"
    /\ poison' = AfterNack(NackRequeue)
    /\ ev' = NackEvent(NackRequeue)
    /\ UNCHANGED <<impl, connVars, cycConnects, rxVars, dbVars, svcVars, federations, mgrRunning, mgrConnections,
                   mgrPc, mgrTodo, busPc, busTodo, busDropped, busSnap, busAttempted,
                   busSkipped, cycPending, cycDisabled>>

\* toggle_federation: federation.enabled = not federation.enabled
AdminToggle(p) ==
    /\ impl = "manager"
    /\ federations' = [federations EXCEPT ![p].enabled = ~@]
    /\ ev' = NoEvent
    /\ UNCHANGED <<impl, connVars, cycConnects, rxVars, busHist, dbVars, svcVars, mgrRunning, mgrConnections, mgrPc, mgrTodo,
                   busPc, busTodo, busDropped, cycPending, cycDisabled>>

(***************************************************************************)
(* FederationConnection called directly: connect() and disconnect() of one *)
(* connection of either implementation, in any order.                      *)
(***************************************************************************)

Empty == [q \in {} |-> 0]

NoSocket == 0
NoText == "none"
NoThread == "none"

\* The points at which connect() can raise.
Stages == {"socket", "tls", "connect", "status"}

\* FederationConnection.__init__ of either implementation (the manager's
\* connection has no running flag and no loops: they stay as they are here).
FreshConn == [connected |-> FALSE, running |-> FALSE, socket |-> NoSocket, loops |-> 0]

\* The peer's row before any connect: last_connected is NULL.
NeverConnected == 0

FreshRow == [status |-> "disconnected", last_error |-> NoText,
             last_connected |-> NeverConnected]

\* messages_sent and messages_failed of a new Federation row (default=0).
NoMessages == [messages_sent |-> 0, messages_failed |-> 0]

ConnUnused ==
    /\ connObj = FreshConn
    /\ connRow = FreshRow
    /\ sockets = <<>>
    /\ storeFaults = FALSE
    /\ lock = NoThread
    /\ thr = Empty
    /\ counters = NoMessages
    /\ enq = Empty

\* The call that just returned: its name, its result, the text of the error
\* it raised inside if any, and whether the connection was connected before.
CallEvent(op, ok, text, was) ==
    [op |-> op, peer |-> 1, ok |-> ok, text |-> text, was |-> was]

Here == [conn |-> connObj, row |-> connRow, sockets |-> sockets]

\* socket.socket(...) bound to self.socket: a new handle, open.
Opened(s) == Append(s, "open")

\* self.socket.close() if self.socket
Closed(s, h) == IF h = NoSocket THEN s ELSE [s EXCEPT ![h] = "closed"]

\* A write of status and last_error that commits or raises.
Written(r, commit, st, err) ==
    IF commit THEN [r EXCEPT !.status = st, !.last_error = err] ELSE r

\* last_connected = datetime.utcnow(): the time of a connect is modelled by
\* the handle of the socket it opened, which grows with every connect.
Stamped(r, at) == [r EXCEPT !.last_connected = at]

\* Variant: the handler of connect() records the status it found.
StatusKept(r) == r.status

\* The status the handler of a failed connect() writes:
\* STATUS_ERROR, _update_status('error', error_msg).
StatusOnFailure(r) == "error"

\* federation_service.py connect(): the call runs to stage and raises there,
\* or runs to the end.  A raw socket that was not bound to self.socket is
\* dropped with the frame.  The handler's write commits or raises
\* (db_error is logged).
ServiceConnect(x, stage, commit) ==
    LET bound == stage \notin {"socket", "tls"}
        s1 == IF bound THEN Opened(x.sockets) ELSE x.sockets
        sock == IF bound THEN Len(s1) ELSE x.conn.socket
    IN  IF stage = "ok"
        THEN [conn |-> [connected |-> TRUE, running |-> TRUE, socket |-> sock,
                        loops |-> x.conn.loops + 3],
              row |-> Stamped(Written(x.row, TRUE, "connected", NoText), sock),
              sockets |-> s1]
        ELSE [conn |-> [x.conn EXCEPT !.connected = FALSE, !.socket = sock,
                                      !.running = IF stage = "status" THEN TRUE ELSE @],
              row |-> Written(x.row, commit, StatusOnFailure(x.row), stage),
              sockets |-> s1]

\* federation_manager.py connect(): returns at once when connected; the
\* handler closes self.socket; _update_status swallows what the store raises.
ManagerConnect(x, stage, commit) ==
    IF x.conn.connected THEN x
    ELSE IF stage = "ok"
    THEN [conn |-> [x.conn EXCEPT !.connected = TRUE, !.socket = Len(x.sockets) + 1],
          row |-> IF commit
                  THEN Stamped(Written(x.row, TRUE, "connected", NoText),
                               Len(x.sockets) + 1)
                  ELSE x.row,
          sockets |-> Opened(x.sockets)]
    ELSE [conn |-> [x.conn EXCEPT !.connected = FALSE, !.socket = NoSocket],
          row |-> Written(x.row, commit, StatusOnFailure(x.row), stage),
          sockets |-> IF stage = "connect" THEN Append(x.sockets, "closed")
                      ELSE Closed(x.sockets, x.conn.socket)]

\* Variant: disconnect() closes the socket of a connected connection only.
CloseIfConnected(x) ==
    IF x.conn.connected THEN Closed(x.sockets, x.conn.socket) ELSE x.sockets

\* disconnect(): if self.socket: self.socket.close()
CloseSocket(x) == Closed(x.sockets, x.conn.socket)

\* federation_service.py disconnect(): the joins are bounded, the loops end
\* on their own; the write of STATUS_DISCONNECTED commits or raises.
ServiceDisconnect(x, commit) ==
    [conn |-> [x.conn EXCEPT !.running = FALSE, !.connected = FALSE],
     row |-> IF commit THEN [x.row EXCEPT !.status = "disconnected"] ELSE x.row,
     sockets |-> CloseSocket(x)]

\* federation_manager.py disconnect()
ManagerDisconnect(x, commit) ==
    [conn |-> [x.conn EXCEPT !.connected = FALSE, !.socket = NoSocket],
     row |-> Written(x.row, commit, "disconnected", NoText),
     sockets |-> CloseSocket(x)]

\* The stages a call of connect() can end at, and the outcomes of a write.
Outcomes ==
    {"ok", "socket", "tls", "connect"}
        \cup (IF storeFaults /\ impl = "service" THEN {"status"} ELSE {})

Commits == IF storeFaults THEN BOOLEAN ELSE {TRUE}

\* _increment_sent: messages_sent += 1 and commit; what the store raises is
\* logged and swallowed.
IncrementSent(n, commit) ==
    IF commit THEN [n EXCEPT !.messages_sent = @ + 1] ELSE n

\* _increment_failed: messages_failed += 1 and commit, likewise.
IncrementFailed(n, commit) ==
    IF commit THEN [n EXCEPT !.messages_failed = @ + 1] ELSE n

\* send_cot called on its own: the state and the counters after the call and
\* the value returned.  A connection that is not connected is connected
\* first (stage, commit: the outcome of that connect()); sent says whether
\* sendall returned, counted whether the counter's write committed.
send_cot(x, n, stage, commit, sent, counted) ==
    LET y == ManagerConnect(x, stage, commit)
    IN  IF ~y.conn.connected
        THEN [state |-> y, counters |-> n, result |-> FALSE]
        ELSE IF y.conn.socket = NoSocket
        THEN [state |-> y, counters |-> n, result |-> FALSE]
        ELSE IF sent
        THEN [state |-> y, counters |-> IncrementSent(n, counted), result |-> TRUE]
        ELSE [state |-> [conn |-> [y.conn EXCEPT !.connected = FALSE,
                                                 !.socket = NoSocket],
                         row |-> Written(y.row, commit, "error", "send"),
                         sockets |-> Closed(y.sockets, y.conn.socket)],
              counters |-> IncrementFailed(n, counted),
              result |-> FALSE]

Unused == <<dbVars, svcVars, mgrVars, rxVars, cycPending, cycDisabled, cycConnects, enq>>

\* connection.connect()
CallConnect ==
    /\ thr = Empty
    /\ \E stage \in Outcomes, commit \in Commits :
         /\ stage \in {"socket", "tls"} \/ Len(sockets) < MaxSockets
         /\ LET y == IF impl = "service" THEN ServiceConnect(Here, stage, commit)
                     ELSE ManagerConnect(Here, stage, commit)
                ok == stage = "ok" \/ (impl = "manager" /\ connObj.connected)
            IN  /\ connObj' = y.conn
                /\ connRow' = y.row
                /\ sockets' = y.sockets
                /\ ev' = CallEvent("connect", ok, IF ok THEN NoText ELSE stage,
                                  connObj.connected)
    /\ UNCHANGED <<impl, Unused, storeFaults, lock, thr, counters>>

\* connection.disconnect()
CallDisconnect ==
    /\ thr = Empty
    /\ \E commit \in Commits :
         LET y == IF impl = "service" THEN ServiceDisconnect(Here, commit)
                  ELSE ManagerDisconnect(Here, commit)
         IN  /\ connObj' = y.conn
             /\ connRow' = y.row
             /\ sockets' = y.sockets
    /\ ev' = CallEvent("disconnect", TRUE, NoText, connObj.connected)
    /\ UNCHANGED <<impl, Unused, storeFaults, lock, thr, counters>>

\* connection.send_cot(cot_xml)
CallSendCot ==
    /\ impl = "manager"
    /\ thr = Empty
    /\ counters.messages_sent + counters.messages_failed < MaxMessages
    /\ \E stage \in Outcomes, commit \in Commits, sent \in BOOLEAN, counted \in Commits :
         /\ connObj.connected \/ stage \in {"socket", "tls"} \/ Len(sockets) < MaxSockets
         /\ LET z == send_cot(Here, counters, stage, commit, sent, counted)
            IN  /\ connObj' = z.state.conn
                /\ connRow' = z.state.row
                /\ sockets' = z.state.sockets
                /\ counters' = z.counters
                /\ ev' = CallEvent("send_cot", z.result, NoText, connObj.connected)
    /\ UNCHANGED <<impl, Unused, storeFaults, lock, thr>>

\* The peer closes the stream: _receive_loop clears connected and ends.
PeerCloses ==
    /\ impl = "service"
    /\ thr = Empty
    /\ connObj.connected
    /\ connObj.loops > 0
    /\ connObj' = [connObj EXCEPT !.connected = FALSE, !.loops = @ - 1]
    /\ ev' = NoEvent
    /\ UNCHANGED <<impl, Unused, connRow, sockets, storeFaults, lock, thr, counters>>

\* A loop of the connection finds "self.running and self.connected" false.
LoopExit ==
    /\ thr = Empty
    /\ connObj.loops > 0
    /\ ~LoopCondition(connObj)
    /\ connObj' = [connObj EXCEPT !.loops = @ - 1]
    /\ ev' = NoEvent
    /\ UNCHANGED <<impl, Unused, connRow, sockets, storeFaults, lock, thr, counters>>

(***************************************************************************)
(* The writers of one connection's socket.  Manager: the bus consumer      *)
(* ("bus") calls send_cot, the monitor ("mon") calls connect and           *)
(* disconnect; every method is a sequence of steps around self.lock.       *)
(* Service: the sender loop ("send") writes, the heartbeat loop ("hb")     *)
(* sleeps, the monitor disconnects; there is no lock.                      *)
(***************************************************************************)

\* Variant: entering "with self.lock" takes nothing.
NoAcquire(l, t) == l

\* with self.lock: the lock after thread t has entered.
Acquire(l, t) == t

\* What a thread does once connect() has returned: send_cot goes on to its
\* own "with self.lock" when connect() returned True.
AfterConnect(t, ok) == IF t = "bus" /\ ok THEN "s_wait" ELSE "idle"

\* One step of thread t: its next position and the shared state after it.
LockStepCounting(t, pc, c, r, s, l, n) ==
    /\ thr' = [thr EXCEPT ![t] = pc]
    /\ connObj' = c
    /\ connRow' = r
    /\ sockets' = s
    /\ lock' = l
    /\ counters' = n
    /\ ev' = NoEvent
    /\ UNCHANGED <<impl, Unused, storeFaults>>

\* A step that leaves the counters as they are.
LockStep(t, pc, c, r, s, l) == LockStepCounting(t, pc, c, r, s, l, counters)

\* _on_message calls send_cot: "if not self.connected: self.connect()".
SendCotCall ==
    /\ impl = "manager"
    /\ thr["bus"] = "idle"
    /\ counters.messages_sent + counters.messages_failed < MaxMessages
    /\ LockStep("bus", IF connObj.connected THEN "s_wait" ELSE "c_wait",
                connObj, connRow, sockets, lock)

\* _monitor_connections: "if not conn.connected: conn.connect()".
MonConnectCall ==
    /\ impl = "manager"
    /\ thr["mon"] = "idle"
    /\ ~connObj.connected
    /\ LockStep("mon", "c_wait", connObj, connRow, sockets, lock)

\* _monitor_connections and stop(): conn.disconnect().
MonDisconnectCall ==
    /\ impl = "manager"
    /\ thr["mon"] = "idle"
    /\ LockStep("mon", "d_wait", connObj, connRow, sockets, lock)

Inside(pc) ==
    CASE pc = "c_wait" -> "connecting"
      [] pc = "s_wait" -> "locked"
      [] pc = "d_wait" -> "disconnecting"

\* with self.lock: entered when no thread holds the lock.
LockEnter(t) ==
    /\ thr[t] \in {"c_wait", "s_wait", "d_wait"}
    /\ lock = NoThread
    /\ LockStep(t, Inside(thr[t]), connObj, connRow, sockets, Acquire(lock, t))

\* connect() inside the lock: returns True at once when connected; else the
\* socket is created, bound to self.socket and connected, and the status is
\* written; or the call raises, which leaves the "with" block.
ConnectBody(t) ==
    /\ thr[t] = "connecting"
    /\ IF connObj.connected
       THEN LockStep(t, AfterConnect(t, TRUE), connObj, connRow, sockets, NoThread)
       ELSE \/ /\ Len(sockets) < MaxSockets
               /\ LET y == ManagerConnect(Here, "ok", TRUE)
                  IN  LockStep(t, AfterConnect(t, TRUE), y.conn, y.row, y.sockets, NoThread)
            \/ /\ Len(sockets) < MaxSockets
               /\ LockStep(t, "c_handler", [connObj EXCEPT !.socket = Len(sockets) + 1],
                           connRow, Opened(sockets), NoThread)
            \/ LockStep(t, "c_handler", connObj, connRow, sockets, NoThread)

\* connect(): the except branch, outside the lock, up to _update_status.
ConnectHandler(t) ==
    /\ thr[t] = "c_handler"
    /\ LockStep(t, "c_close",
                [connObj EXCEPT !.connected = FALSE],
                Written(connRow, TRUE, "error", "connect"),
                sockets, lock)

\* The end of either except branch, outside the lock:
\* "if self.socket: self.socket.close(); self.socket = None", on whatever
\* self.socket is bound to by now.
HandlerClose(t) ==
    /\ thr[t] \in {"c_close", "s_close"}
    /\ LockStep(t, IF thr[t] = "c_close" THEN AfterConnect(t, FALSE) ELSE "idle",
                [connObj EXCEPT !.socket = NoSocket],
                connRow, Closed(sockets, connObj.socket), lock)

\* send_cot inside the lock: "if not self.socket: return False", else sendall
\* begins.
SendLocked(t) ==
    /\ thr[t] = "locked"
    /\ IF connObj.socket = NoSocket
       THEN LockStep(t, "idle", connObj, connRow, sockets, NoThread)
       ELSE LockStep(t, "write", connObj, connRow, sockets, lock)

\* send_cot: sendall returns, or raises and leaves the "with" block.
WriteEnd(t) ==
    /\ impl = "manager"
    /\ thr[t] = "write"
    /\ \/ LockStep(t, "count", connObj, connRow, sockets, lock)
       \/ LockStep(t, "s_handler", connObj, connRow, sockets, NoThread)

\* send_cot: _increment_sent() has committed; return True leaves the lock.
CountDone(t) ==
    /\ thr[t] = "count"
    /\ LockStepCounting(t, "idle", connObj, connRow, sockets, NoThread,
                        IncrementSent(counters, TRUE))

\* send_cot: the except branch, outside the lock, up to _increment_failed().
SendHandler(t) ==
    /\ thr[t] = "s_handler"
    /\ LockStepCounting(t, "s_close",
                        [connObj EXCEPT !.connected = FALSE],
                        Written(connRow, TRUE, "error", "send"),
                        sockets, lock,
                        IncrementFailed(counters, TRUE))

\* disconnect() inside the lock, to its end.
DisconnectBody(t) ==
    /\ thr[t] = "disconnecting"
    /\ LET y == ManagerDisconnect(Here, TRUE)
       IN  LockStep(t, "idle", y.conn, y.row, y.sockets, NoThread)

\* _send_loop: self.socket.sendall(cot_xml) begins.
SvcWriteBegin ==
    /\ impl = "service"
    /\ thr["send"] = "idle"
    /\ LoopCondition(connObj)
    /\ LockStep("send", "write", connObj, connRow, sockets, lock)

\* _send_loop: sendall returns or raises; the loop goes on.
SvcWriteEnd ==
    /\ impl = "service"
    /\ thr["send"] = "write"
    /\ LockStep("send", "idle", connObj, connRow, sockets, lock)

\* _send_loop, _heartbeat_loop: the loop condition is found false.  The
\* heartbeat loop has no other step: its body is a sleep.
SvcLoopExit(t) ==
    /\ impl = "service"
    /\ t \in {"send", "hb"}
    /\ thr[t] \in {"idle", "sleep"}
    /\ ~LoopCondition(connObj)
    /\ LockStep(t, "done", [connObj EXCEPT !.loops = @ - 1], connRow, sockets, lock)

\* _heartbeat_loop: one iteration of the loop.  time.sleep(interval)
\* returns and the loop tests its condition again: the keep-alive message
\* is a TODO, nothing is passed to the socket.
SvcHeartbeat ==
    /\ impl = "service"
    /\ thr["hb"] = "sleep"
    /\ LoopCondition(connObj)
    /\ ev' = CallEvent("heartbeat", TRUE, NoText, connObj.connected)
    /\ UNCHANGED <<impl, Unused, connVars>>

\* _monitor_loop, stop(): connection.disconnect().
SvcDisconnect ==
    /\ impl = "service"
    /\ thr["mon"] = "idle"
    /\ LET y == ServiceDisconnect(Here, TRUE)
       IN  LockStep("mon", "done", y.conn, y.row, y.sockets, lock)

(***************************************************************************)
(* Specifications                                                          *)
(***************************************************************************)

\* SpecSup: supervision of the connections; the queue stays empty.
InitSup ==
    /\ impl \in {"service", "manager"}
    /\ IF impl = "service"
       THEN /\ servers \in [1..NumPeers ->
                               [enabled : BOOLEAN,
                                connection_type : {"outbound", "inbound"},
                                sync_missions : {TRUE}, status : {"disconnected"}]]
            /\ federations = Empty
       ELSE /\ servers = Empty
            /\ federations \in [1..NumPeers ->
                                   [enabled : BOOLEAN, push_cot : BOOLEAN,
                                    connection_status : {"disconnected"}]]
    /\ missionChanges = Empty
    /\ outbound = <<>>
    /\ running = FALSE
    /\ connections = Empty
    /\ detached = {}
    /\ monPc = "init"
    /\ monTodo = {}
    /\ mgrRunning = FALSE
    /\ mgrConnections = Empty
    /\ mgrPc = "init"
    /\ mgrTodo = {}
    /\ busPc = "off"
    /\ busTodo = {}
    /\ busDropped = {}
    /\ busSnap = {}
    /\ busAttempted = {}
    /\ busSkipped = {}
    /\ poison = "absent"
    /\ buffer = <<>>
    /\ received = <<>>
    /\ emitted = <<>>
    /\ lastPass = <<>>
    /\ ev = NoEvent
    /\ cycPending = {}
    /\ cycDisabled = {}
    /\ cycConnects = NoCycle
    /\ ConnUnused

NextSup ==
    \/ Start
    \/ Stop
    \/ MonQuery
    \/ MonExit
    \/ \E p \in Peers : MonVisit(p)
    \/ MonSweep
    \/ \E p \in Peers : MapRecvClosed(p)
    \/ \E o \in detached : DetRecvClosed(o)
    \/ \E p \in Peers : MapHbExit(p)
    \/ \E o \in detached : DetHbExit(o)
    \/ \E p \in Peers : MapSendExit(p)
    \/ \E o \in detached : DetSendExit(o)
    \/ \E p \in Peers, b \in BOOLEAN : AdminUpdate(p, "enabled", b)
    \/ MgrStart
    \/ \E p \in Feds : MgrLoad(p)
    \/ MgrLoadDone
    \/ MgrMonQuery
    \/ MgrMonRemove
    \/ \E p \in Feds : MgrMonAdd(p)
    \/ MgrMonCycleEnd
    \/ MgrStop
    \/ BusMessage
    \/ \E p \in Feds : BusSkip(p)
    \/ \E p \in Feds : BusSend(p)
    \/ \E p \in Feds : BusReconnect(p)
    \/ \E p \in Feds : BusDroppedSend(p)
    \/ BusAck
    \/ \E p \in Feds : AdminToggle(p)

SpecSup == InitSup /\ [][NextSup]_vars

\* SpecBus: the manager with its bus consumer, several federations, and a
\* publisher of undecodable messages.
InitBus ==
    /\ impl = "manager"
    /\ servers = Empty
    /\ federations \in [1..NumQueuePeers ->
                           [enabled : BOOLEAN, push_cot : BOOLEAN,
                            connection_status : {"disconnected"}]]
    /\ missionChanges = Empty
    /\ outbound = <<>>
    /\ running = FALSE
    /\ connections = Empty
    /\ detached = {}
    /\ monPc = "init"
    /\ monTodo = {}
    /\ mgrRunning = FALSE
    /\ mgrConnections = Empty
    /\ mgrPc = "init"
    /\ mgrTodo = {}
    /\ busPc = "off"
    /\ busTodo = {}
    /\ busDropped = {}
    /\ busSnap = {}
    /\ busAttempted = {}
    /\ busSkipped = {}
    /\ poison = "absent"
    /\ buffer = <<>>
    /\ received = <<>>
    /\ emitted = <<>>
    /\ lastPass = <<>>
    /\ ev = NoEvent
    /\ cycPending = {}
    /\ cycDisabled = {}
    /\ cycConnects = NoCycle
    /\ ConnUnused

NextBus ==
    \/ MgrStart
    \/ \E p \in Feds : MgrLoad(p)
    \/ MgrLoadDone
    \/ MgrStop
    \/ BusMessage
    \/ \E p \in Feds : BusSkip(p)
    \/ \E p \in Feds : BusSend(p)
    \/ \E p \in Feds : BusReconnect(p)
    \/ BusAck
    \/ BusPublishPoison
    \/ BusPoison

SpecBus == InitBus /\ [][NextBus]_vars

\* The message bus with a channel whose acknowledgement may raise.
NextSettle ==
    \/ NextBus
    \/ BusAckRaises
    \/ BusHandlerNack

SpecSettle == InitBus /\ [][NextSettle]_vars

\* SpecConn: direct calls on one connection; the store is available.
InitConn ==
    /\ impl \in {"service", "manager"}
    /\ servers = Empty
    /\ missionChanges = Empty
    /\ outbound = <<>>
    /\ running = FALSE
    /\ connections = Empty
    /\ detached = {}
    /\ monPc = "init"
    /\ monTodo = {}
    /\ federations = Empty
    /\ mgrRunning = FALSE
    /\ mgrConnections = Empty
    /\ mgrPc = "init"
    /\ mgrTodo = {}
    /\ busPc = "off"
    /\ busTodo = {}
    /\ busDropped = {}
    /\ busSnap = {}
    /\ busAttempted = {}
    /\ busSkipped = {}
    /\ poison = "absent"
    /\ buffer = <<>>
    /\ received = <<>>
    /\ emitted = <<>>
    /\ lastPass = <<>>
    /\ ev = NoEvent
    /\ cycPending = {}
    /\ cycDisabled = {}
    /\ cycConnects = NoCycle
    /\ connObj = FreshConn
    /\ connRow = FreshRow
    /\ sockets = <<>>
    /\ storeFaults = FALSE
    /\ lock = NoThread
    /\ thr = Empty
    /\ counters = NoMessages
    /\ enq = Empty

NextConn ==
    \/ CallConnect
    \/ CallDisconnect
    \/ CallSendCot
    \/ PeerCloses
    \/ LoopExit

SpecConn == InitConn /\ [][NextConn]_vars

\* SpecConnFault: the same calls when a write to the store may raise.
InitConnFault ==
    /\ impl \in {"service", "manager"}
    /\ servers = Empty
    /\ missionChanges = Empty
    /\ outbound = <<>>
    /\ running = FALSE
    /\ connections = Empty
    /\ detached = {}
    /\ monPc = "init"
    /\ monTodo = {}
    /\ federations = Empty
    /\ mgrRunning = FALSE
    /\ mgrConnections = Empty
    /\ mgrPc = "init"
    /\ mgrTodo = {}
    /\ busPc = "off"
    /\ busTodo = {}
    /\ busDropped = {}
    /\ busSnap = {}
    /\ busAttempted = {}
    /\ busSkipped = {}
    /\ poison = "absent"
    /\ buffer = <<>>
    /\ received = <<>>
    /\ emitted = <<>>
    /\ lastPass = <<>>
    /\ ev = NoEvent
    /\ cycPending = {}
    /\ cycDisabled = {}
    /\ cycConnects = NoCycle
    /\ connObj = FreshConn
    /\ connRow = FreshRow
    /\ sockets = <<>>
    /\ storeFaults = TRUE
    /\ lock = NoThread
    /\ thr = Empty
    /\ counters = NoMessages
    /\ enq = Empty

SpecConnFault == InitConnFault /\ [][NextConn]_vars

\* SpecLock: the threads that use one connection, from the manager's fresh
\* connection and from the service's connection after connect() returned
\* True.
InitLock ==
    /\ impl \in {"service", "manager"}
    /\ servers = Empty
    /\ missionChanges = Empty
    /\ outbound = <<>>
    /\ running = FALSE
    /\ connections = Empty
    /\ detached = {}
    /\ monPc = "init"
    /\ monTodo = {}
    /\ federations = Empty
    /\ mgrRunning = FALSE
    /\ mgrConnections = Empty
    /\ mgrPc = "init"
    /\ mgrTodo = {}
    /\ busPc = "off"
    /\ busTodo = {}
    /\ busDropped = {}
    /\ busSnap = {}
    /\ busAttempted = {}
    /\ busSkipped = {}
    /\ poison = "absent"
    /\ buffer = <<>>
    /\ received = <<>>
    /\ emitted = <<>>
    /\ lastPass = <<>>
    /\ ev = NoEvent
    /\ cycPending = {}
    /\ cycDisabled = {}
    /\ cycConnects = NoCycle
    /\ storeFaults = FALSE
    /\ counters = NoMessages
    /\ enq = Empty
    /\ lock = NoThread
    /\ IF impl = "manager"
       THEN /\ connObj = FreshConn
            /\ connRow = FreshRow
            /\ sockets = <<>>
            /\ thr = [t \in {"bus", "mon"} |-> "idle"]
       ELSE LET y == ServiceConnect([conn |-> FreshConn, row |-> FreshRow,
                                    sockets |-> <<>>], "ok", TRUE)
            IN  /\ connObj = y.conn
                /\ connRow = y.row
                /\ sockets = y.sockets
                /\ thr = [t \in {"send", "hb", "mon"} |->
                            IF t = "hb" THEN "sleep" ELSE "idle"]

NextLock ==
    \/ SendCotCall
    \/ MonConnectCall
    \/ MonDisconnectCall
    \/ \E t \in DOMAIN thr : LockEnter(t)
    \/ \E t \in DOMAIN thr : ConnectBody(t)
    \/ \E t \in DOMAIN thr : ConnectHandler(t)
    \/ \E t \in DOMAIN thr : SendLocked(t)
    \/ \E t \in DOMAIN thr : WriteEnd(t)
    \/ \E t \in DOMAIN thr : CountDone(t)
    \/ \E t \in DOMAIN thr : SendHandler(t)
    \/ \E t \in DOMAIN thr : HandlerClose(t)
    \/ \E t \in DOMAIN thr : DisconnectBody(t)
    \/ SvcWriteBegin
    \/ SvcWriteEnd
    \/ \E t \in DOMAIN thr : SvcLoopExit(t)
    \/ SvcHeartbeat
    \/ SvcDisconnect

SpecLock == InitLock /\ [][NextLock]_vars

\* SpecCycle: the monitor of either implementation with several enabled
\* peers, any of which may refuse a connection or close one.  The loops of
\* a replaced connection object are left running here (SpecSup ends them).
InitCycle ==
    /\ impl \in {"service", "manager"}
    /\ IF impl = "service"
       THEN /\ servers \in [1..NumQueuePeers ->
                               [enabled : {TRUE},
                                connection_type : {"outbound"},
                                sync_missions : {TRUE}, status : {"disconnected"}]]
            /\ federations = Empty
       ELSE /\ servers = Empty
            /\ federations \in [1..NumQueuePeers ->
                                   [enabled : {TRUE}, push_cot : {TRUE},
                                    connection_status : {"disconnected"}]]
    /\ missionChanges = Empty
    /\ outbound = <<>>
    /\ running = FALSE
    /\ connections = Empty
    /\ detached = {}
    /\ monPc = "init"
    /\ monTodo = {}
    /\ mgrRunning = FALSE
    /\ mgrConnections = Empty
    /\ mgrPc = "init"
    /\ mgrTodo = {}
    /\ busPc = "off"
    /\ busTodo = {}
    /\ busDropped = {}
    /\ busSnap = {}
    /\ busAttempted = {}
    /\ busSkipped = {}
    /\ poison = "absent"
    /\ buffer = <<>>
    /\ received = <<>>
    /\ emitted = <<>>
    /\ lastPass = <<>>
    /\ ev = NoEvent
    /\ cycPending = {}
    /\ cycDisabled = {}
    /\ cycConnects = NoCycle
    /\ ConnUnused

NextCycle ==
    \/ Start
    \/ Stop
    \/ MonQuery
    \/ MonExit
    \/ \E p \in Peers : MonVisit(p)
    \/ MonSweep
    \/ \E p \in Peers : MapRecvClosed(p)
    \/ MgrStart
    \/ \E p \in Feds : MgrLoad(p)
    \/ MgrLoadDone
    \/ MgrMonQuery
    \/ MgrMonRemove
    \/ \E p \in Feds : MgrMonAdd(p)
    \/ MgrMonCycleEnd
    \/ MgrStop

SpecCycle == InitCycle /\ [][NextCycle]_vars

\* SpecEnqueue: the enqueue operations against a registry the admin edits.
InitEnqueue ==
    /\ impl = "service"
    /\ servers \in [1..NumQueuePeers ->
                      [enabled : BOOLEAN, connection_type : {"outbound"},
                       sync_missions : BOOLEAN, status : {"disconnected"}]]
    /\ missionChanges = Empty
    /\ outbound = <<>>
    /\ running = FALSE
    /\ connections = Empty
    /\ detached = {}
    /\ monPc = "init"
    /\ monTodo = {}
    /\ federations = Empty
    /\ mgrRunning = FALSE
    /\ mgrConnections = Empty
    /\ mgrPc = "init"
    /\ mgrTodo = {}
    /\ busPc = "off"
    /\ busTodo = {}
    /\ busDropped = {}
    /\ busSnap = {}
    /\ busAttempted = {}
    /\ busSkipped = {}
    /\ poison = "absent"
    /\ buffer = <<>>
    /\ received = <<>>
    /\ emitted = <<>>
    /\ lastPass = <<>>
    /\ ev = NoEvent
    /\ cycPending = {}
    /\ cycDisabled = {}
    /\ cycConnects = NoCycle
    /\ ConnUnused

NextEnqueue ==
    \/ \E c \in Changes : CommitViaHelper(c)
    \/ \E c \in Changes : CommitViaService(c)
    \/ \E p \in Peers, b \in BOOLEAN : AdminUpdate(p, "enabled", b)
    \/ \E p \in Peers, b \in BOOLEAN : AdminUpdate(p, "sync_missions", b)

SpecEnqueue == InitEnqueue /\ [][NextEnqueue]_vars

\* SpecSend: the sender loop of the connection to peer 1, established by an
\* earlier monitor cycle, between two cycles of the monitor.  The other
\* peers are of inbound type: rows are queued for them, no connection is made.
InitSend ==
    /\ impl = "service"
    /\ servers \in [1..NumPeers ->
                      [enabled : {TRUE}, connection_type : {"outbound", "inbound"},
                       sync_missions : BOOLEAN, status : {"connected", "disconnected"}]]
    /\ \A p \in Peers :
         IF p = 1
         THEN /\ servers[p].connection_type = "outbound"
              /\ servers[p].sync_missions
              /\ servers[p].status = "connected"
         ELSE /\ servers[p].connection_type = "inbound"
              /\ servers[p].status = "disconnected"
    /\ missionChanges = Empty
    /\ outbound = <<>>
    /\ running = TRUE
    /\ connections = With(Empty, 1, NewConnection(1))
    /\ detached = {}
    /\ monPc = "sleep"
    /\ monTodo = {}
    /\ federations = Empty
    /\ mgrRunning = FALSE
    /\ mgrConnections = Empty
    /\ mgrPc = "init"
    /\ mgrTodo = {}
    /\ busPc = "off"
    /\ busTodo = {}
    /\ busDropped = {}
    /\ busSnap = {}
    /\ busAttempted = {}
    /\ busSkipped = {}
    /\ poison = "absent"
    /\ buffer = <<>>
    /\ received = <<>>
    /\ emitted = <<>>
    /\ lastPass = <<>>
    /\ ev = NoEvent
    /\ cycPending = {}
    /\ cycDisabled = {}
    /\ cycConnects = NoCycle
    /\ ConnUnused

NextSend ==
    \/ \E c \in Changes : CommitViaHelper(c)
    \/ \E c \in Changes : CommitViaService(c)
    \/ \E p \in Peers : MapSendPoll(p)
    \/ \E p \in Peers : MapSendBatch(p)
    \/ \E p \in Peers : MapRecvClosed(p)
    \/ \E p \in Peers : MapSendExit(p)
    \/ \E p \in Peers : MapHbExit(p)

SpecSend == InitSend /\ [][NextSend]_vars

\* SpecRace: several executions of queue_mission_change_for_federation at
\* once for committed changes, against any registry.
InitRace ==
    /\ impl = "service"
    /\ servers \in [1..NumQueuePeers ->
                      [enabled : BOOLEAN, connection_type : {"outbound"},
                       sync_missions : BOOLEAN, status : {"disconnected"}]]
    /\ missionChanges = [c \in Changes |-> FALSE]
    /\ outbound = <<>>
    /\ running = FALSE
    /\ connections = Empty
    /\ detached = {}
    /\ monPc = "init"
    /\ monTodo = {}
    /\ federations = Empty
    /\ mgrRunning = FALSE
    /\ mgrConnections = Empty
    /\ mgrPc = "init"
    /\ mgrTodo = {}
    /\ busPc = "off"
    /\ busTodo = {}
    /\ busDropped = {}
    /\ busSnap = {}
    /\ busAttempted = {}
    /\ busSkipped = {}
    /\ poison = "absent"
    /\ buffer = <<>>
    /\ received = <<>>
    /\ emitted = <<>>
    /\ lastPass = <<>>
    /\ ev = NoEvent
    /\ cycPending = {}
    /\ cycDisabled = {}
    /\ cycConnects = NoCycle
    /\ connObj = FreshConn
    /\ connRow = FreshRow
    /\ sockets = <<>>
    /\ storeFaults = FALSE
    /\ lock = NoThread
    /\ thr = Empty
    /\ counters = NoMessages
    /\ enq = [w \in Workers |-> IdleWorker]

NextRace ==
    \/ \E w \in Workers, c \in Changes : HelperCheck(w, c)
    \/ \E w \in Workers : HelperCommit(w)

SpecRace == InitRace /\ [][NextRace]_vars

\* SpecStatus: SpecSend with the admin API's status requests.
NextStatus ==
    \/ NextSend
    \/ \E p \in Peers : StatusRequest(p)

SpecStatus == InitSend /\ [][NextStatus]_vars

\* SpecBridge: the sender loops together with the monitor loop, stop() and
\* the loops of the connection objects that have left the map, while one
\* mission change is committed and enqueued for the peer.
InitBridge ==
    /\ impl = "service"
    /\ servers = [p \in {1} |-> [enabled |-> TRUE, connection_type |-> "outbound",
                                 sync_missions |-> TRUE, status |-> "connected"]]
    /\ missionChanges = Empty
    /\ outbound = <<>>
    /\ running = TRUE
    /\ connections = With(Empty, 1, NewConnection(1))
    /\ detached = {}
    /\ monPc = "sleep"
    /\ monTodo = {}
    /\ federations = Empty
    /\ mgrRunning = FALSE
    /\ mgrConnections = Empty
    /\ mgrPc = "init"
    /\ mgrTodo = {}
    /\ busPc = "off"
    /\ busTodo = {}
    /\ busDropped = {}
    /\ busSnap = {}
    /\ busAttempted = {}
    /\ busSkipped = {}
    /\ poison = "absent"
    /\ buffer = <<>>
    /\ received = <<>>
    /\ emitted = <<>>
    /\ lastPass = <<>>
    /\ ev = NoEvent
    /\ cycPending = {}
    /\ cycDisabled = {}
    /\ cycConnects = NoCycle
    /\ ConnUnused

NextBridge ==
    \/ CommitViaHelper(1)
    \/ \E p \in Peers : MapSendPoll(p)
    \/ \E p \in Peers : MapSendBatch(p)
    \/ \E p \in Peers : MapRecvClosed(p)
    \/ \E p \in Peers : MapSendExit(p)
    \/ \E p \in Peers : MapHbExit(p)
    \/ MonQuery
    \/ MonExit
    \/ \E p \in Peers : MonVisit(p)
    \/ MonSweep
    \/ Stop
    \/ \E o \in detached : DetRecvClosed(o)
    \/ \E o \in detached : DetHbExit(o)
    \/ \E o \in detached : DetSendExit(o)
    \/ \E o \in detached : DetSendBatch(o)

SpecBridge == InitBridge /\ [][NextBridge]_vars

\* SpecCancel: SpecBridge with loops that keep running once their connection
\* object has left the map: a sleep ends, a read on the closed socket
\* returns, a batch completes.
SpecCancel ==
    /\ InitBridge
    /\ [][NextBridge]_vars
    /\ WF_vars(\E o \in detached : DetRecvClosed(o))
    /\ WF_vars(\E o \in detached : DetHbExit(o))
    /\ WF_vars(\E o \in detached : DetSendExit(o))
    /\ WF_vars(\E o \in detached : DetSendBatch(o))

\* SpecSendFair: SpecSend with a sender loop that keeps running: its sleep
\* ends and its batch completes.
SpecSendFair ==
    /\ InitSend
    /\ [][NextSend]_vars
    /\ WF_vars(\E p \in Peers : MapSendPoll(p))
    /\ WF_vars(\E p \in Peers : MapSendBatch(p))

\* SpecFramer: the receive loop of the connection to peer 1, established by
\* an earlier monitor cycle, reading what the peer writes.
InitFramer ==
    /\ impl = "service"
    /\ servers = [p \in {1} |-> [enabled |-> TRUE, connection_type |-> "outbound",
                                 sync_missions |-> TRUE, status |-> "connected"]]
    /\ missionChanges = Empty
    /\ outbound = <<>>
    /\ running = TRUE
    /\ connections = With(Empty, 1, NewConnection(1))
    /\ detached = {}
    /\ monPc = "sleep"
    /\ monTodo = {}
    /\ federations = Empty
    /\ mgrRunning = FALSE
    /\ mgrConnections = Empty
    /\ mgrPc = "init"
    /\ mgrTodo = {}
    /\ busPc = "off"
    /\ busTodo = {}
    /\ busDropped = {}
    /\ busSnap = {}
    /\ busAttempted = {}
    /\ busSkipped = {}
    /\ poison = "absent"
    /\ buffer = <<>>
    /\ received = <<>>
    /\ emitted = <<>>
    /\ lastPass = <<>>
    /\ ev = NoEvent
    /\ cycPending = {}
    /\ cycDisabled = {}
    /\ cycConnects = NoCycle
    /\ ConnUnused

NextFramer ==
    \/ \E p \in Peers : MapRecvData(p)
    \/ \E p \in Peers : MapRecvClosed(p)
    \/ \E p \in Peers : MapRecvTimeout(p)

SpecFramer == InitFramer /\ [][NextFramer]_vars

(***************************************************************************)
(* Properties of the enqueue operations (SpecEnqueue)                      *)
(***************************************************************************)

Rows == 1..Len(outbound)

RowsOf(p, c) == {i \in Rows : outbound[i].peer = p /\ outbound[i].change = c}

\* C2: enqueue is idempotent on (peer, change): however often a change is
\* enqueued, there is at most one OutboundRecord per (peer, change).  The
\* statement fails: FederationService.queue_mission_change adds a row on
\* every call.
C2_OneRecordPerPair ==
    \A p \in Peers, c \in Changes : Cardinality(RowsOf(p, c)) <= 1

EligiblePeers == {p \in DOMAIN servers : servers[p].enabled /\ servers[p].sync_missions}

NewRows == (Len(outbound) + 1)..Len(outbound')

\* A step that enqueues the change c, for which no record exists: its first
\* commit as a local change, or any step that adds records for it.
C10_Enqueues(c) ==
    /\ \A i \in Rows : outbound[i].change # c
    /\ \/ /\ c \notin DOMAIN missionChanges
          /\ c \in DOMAIN missionChanges'
          /\ ~missionChanges'[c]
       \/ \E j \in 1..Len(outbound') : outbound'[j].change = c

C10_FanOutStep ==
    \A c \in Changes :
        C10_Enqueues(c) =>
            /\ Len(outbound') = Len(outbound) + Cardinality(EligiblePeers)
            /\ SubSeq(outbound', 1, Len(outbound)) = outbound
            /\ \A p \in EligiblePeers :
                 Cardinality({j \in NewRows : outbound'[j].peer = p}) = 1
            /\ \A j \in NewRows :
                 /\ outbound'[j].change = c
                 /\ outbound'[j].peer \in EligiblePeers
                 /\ outbound'[j].sent = FALSE
                 /\ outbound'[j].retry_count = 0

Objects == {connections[p] : p \in DOMAIN connections} \cup detached

\* C3: retry_count never exceeds max_retries, and a record with retry_count
\* >= max_retries is selected by no poll, attempted by no sender and keeps
\* its retry_count.  The statement fails: a sender that selected the record
\* before another sender of the same peer exhausted it writes its own
\* count, the loaded value plus one, when its attempt fails.
C3_ExhaustedUnchanged ==
    [][\A i \in Rows :
          outbound[i].retry_count >= MaxRetries
              => outbound'[i].retry_count = outbound[i].retry_count]_vars

\* C11: a record whose send succeeded is sent again by no sender loop: no
\* sender holds a sent record in the batch it is about to write.  The
\* statement fails: two connection objects of one peer select the same
\* unsent record, and each writes it.
C11_NoSecondTransmission ==
    \A o \in Objects : \A b \in o.batch : ~outbound[b.id].sent

\* A row no send has been attempted for.
Unattempted(i) ==
    /\ ~outbound[i].sent
    /\ outbound[i].retry_count = 0
    /\ ~outbound[i].last_retry_at

\* C12: per-peer FIFO: a poll never selects a record while an older record
\* of the same peer is eligible and has had no send attempt.  The statement
\* fails: the query has no ORDER BY.
C12_Fifo ==
    \A p \in DOMAIN connections :
        \A i \in BatchIds(connections[p]) :
            \A j \in 1..(i - 1) :
                (outbound[j].peer = p /\ Unattempted(j)) => j \in BatchIds(connections[p])

\* C13: a failed write (the step that raises a record's retry_count) leaves
\* the record's connection not connected.  The statement fails: _send_loop
\* records the failure and goes on with the open connection.
C13_FailureCloses ==
    [][\A i \in Rows :
          outbound'[i].retry_count > outbound[i].retry_count
              => ~(Connected(outbound[i].peer))']_vars

InSomeBatch(i) == \E o \in Objects : i \in BatchIds(o)

C14_KeptStep ==
    /\ Len(outbound') >= Len(outbound)
    /\ \A i \in Rows :
         /\ outbound'[i].peer = outbound[i].peer
         /\ outbound'[i].change = outbound[i].change
         /\ (outbound[i].retry_count >= MaxRetries /\ ~outbound[i].sent /\ ~InSomeBatch(i))
               => outbound'[i] = outbound[i]

Settled(i) == outbound[i].sent \/ outbound[i].retry_count >= MaxRetries

AllSettled == \A i \in Rows : Settled(i) \/ ~Connected(outbound[i].peer)

\* C4: under weak fairness of the sender loop, every record of a peer is
\* eventually sent or exhausted (retry_count = max_retries), unless the
\* peer's connection stops being connected; the batch limit starves none.
\* Records are never deleted and a settled record stays settled, so this is:
\* again and again, every record queued so far is settled.
C4_EventuallySettled == []<>AllSettled

\* More records are eligible for the peer than one poll selects, and the
\* sender holds a full batch.
C4_Witness ==
    \E p \in DOMAIN connections :
        /\ connections[p].connected
        /\ Cardinality({i \in Rows : outbound[i].peer = p /\ ~Settled(i)}) > BatchLimit
        /\ Cardinality(connections[p].batch) = BatchLimit

(***************************************************************************)
(* Properties of the framing (SpecFramer)                                  *)
(***************************************************************************)

EndsWithMarker(d) ==
    /\ Len(d) >= Len(Marker)
    /\ SubSeq(d, Len(d) - Len(Marker) + 1, Len(d)) = Marker

\* The documents of a byte stream, read a byte at a time: a document ends
\* with the byte that completes the closing marker.
RECURSIVE Documents(_, _, _)
Documents(s, cur, out) ==
    IF s = <<>> THEN [out |-> out, rest |-> cur]
    ELSE LET d == Append(cur, Head(s))
         IN  IF EndsWithMarker(d)
             THEN Documents(Tail(s), <<>>, Append(out, d))
             ELSE Documents(Tail(s), d, out)

IsSuffix(t, u) ==
    /\ Len(t) <= Len(u)
    /\ SubSeq(u, Len(u) - Len(t) + 1, Len(u)) = t

\* C6: after every read, the documents emitted so far are exactly the
\* complete documents of the bytes received, each once and in arrival
\* order, the latest pass having emitted every document its read completed;
\* the bytes of an incomplete document wait in the buffer.
C6_Framing ==
    /\ emitted = Documents(received, <<>>, <<>>).out
    /\ buffer = Documents(received, <<>>, <<>>).rest
    /\ IsSuffix(lastPass, emitted)

\* Two documents back to back were emitted in one pass, the first of them
\* begun in an earlier read (a read returns at most MaxRead bytes).
C6_Witness ==
    /\ lastPass = <<Marker, Marker>>
    /\ received = Marker \o Marker
    /\ Len(received) > MaxRead

\* C25: a read timeout leaves the connection connected, the receiver loop
\* running and the buffer as it was; the receiver loop of a connection
\* whose flags are set ends only in a step that clears connected (a
\* zero-length read or a socket error other than a timeout).
C25_TimeoutStep ==
    ev'.op = "timeout" =>
        /\ connections'[ev'.peer].connected
        /\ connections'[ev'.peer].recv = "run"
        /\ buffer' = buffer
        /\ emitted' = emitted

C25_EndStep ==
    \A p \in DOMAIN connections \cap DOMAIN connections' :
        (/\ LoopCondition(connections[p])
         /\ connections[p].recv = "run"
         /\ connections'[p].recv = "done") => ~connections'[p].connected

C25_ReceiverExits == [][C25_TimeoutStep /\ C25_EndStep]_vars

\* A read has timed out while part of a document waits in the buffer.
C25_Witness ==
    /\ ev.op = "timeout"
    /\ buffer # <<>>
    /\ connections[ev.peer].connected
    /\ connections[ev.peer].recv = "run"

\* A document as the peer writes it: the opening byte, content, the
\* closing marker.
WellFormed(d) ==
    /\ Len(d) > Len(Marker)
    /\ d[1] = "<"
    /\ EndsWithMarker(d)
    /\ \A k \in 2..(Len(d) - Len(Marker)) : d[k] = "x"

\* C30: no message handed to _process_federated_cot is a well-formed
\* document with bytes of earlier input in front of it.
C30_NoLeftover ==
    \A i \in 1..Len(emitted) :
        \A k \in 2..Len(emitted[i]) :
            ~WellFormed(SubSeq(emitted[i], k, Len(emitted[i])))

\* The concatenation of a sequence of messages.
RECURSIVE Concatenation(_)
Concatenation(msgs) ==
    IF msgs = <<>> THEN <<>> ELSE Head(msgs) \o Concatenation(Tail(msgs))

Occurrences(buf) == {i \in 1..Len(buf) : i + 1 <= Len(buf) /\ buf[i] = "<" /\ buf[i + 1] = ">"}

\* C40: framing conserves bytes: the messages emitted so far followed by the
\* residual buffer are the bytes read, every emitted message ends with the
\* closing marker and contains it exactly once, and the residual buffer
\* contains no complete closing marker.
C40_BytesConserved ==
    /\ Concatenation(emitted) \o buffer = received
    /\ \A i \in 1..Len(emitted) :
          /\ EndsWithMarker(emitted[i])
          /\ Cardinality(Occurrences(emitted[i])) = 1
    /\ Occurrences(buffer) = {}

\* Several reads have produced two messages and left the first byte of a
\* closing marker in the residual buffer.
C40_Witness ==
    /\ Len(emitted) = 2
    /\ buffer = <<"<">>
    /\ Len(received) = MaxStream

(***************************************************************************)
(* Properties of the supervision (SpecSup)                                 *)
(***************************************************************************)

Live(o) == o.sock = "open" \/ ThreadsAlive(o)

ObjectsOf(p) == {o \in Objects : o.peer = p}

\* C1: for every peer id there is at most one live FederationConnection (one
\* whose socket is open or whose loops are running).  The statement fails:
\* after a close by the peer the old object keeps its socket and its loops
\* while the monitor installs a new one.
C1_AtMostOneLive ==
    \A p \in Peers : Cardinality({o \in ObjectsOf(p) : Live(o)}) <= 1

AllPeers == DOMAIN servers \cup DOMAIN federations

Status(p) == IF p \in DOMAIN servers THEN servers[p].status
             ELSE federations[p].connection_status

ConnectedFlag(p) == Connected(p) \/ MgrConnected(p)

C7_FailedNotConnected ==
    (ev.op = "connect" /\ ~ev.ok) => Status(ev.peer) # "connected"

C7_MarkStep ==
    \A p \in AllPeers :
        /\ (Status(p) # "connected" /\ Status(p)' = "connected")
              => ev' = ConnectEvent(p, TRUE)
        /\ (~ConnectedFlag(p) /\ ConnectedFlag(p)')
              => ev' = ConnectEvent(p, TRUE)

\* C7: the persisted status of a peer becomes 'connected', and the connected
\* flag becomes true, only in a connect() call whose socket connect
\* succeeded; after a failed connect() the status is not 'connected'.
C7_ConnectedOnlyByHandshake == [](C7_FailedNotConnected) /\ [][C7_MarkStep]_vars

\* A connect() call has just failed and the status is 'error'.
C7_Witness ==
    /\ ev.op = "connect"
    /\ ~ev.ok
    /\ Status(ev.peer) = "error"

\* C8: at the end of every monitor cycle, a connect attempt has been made in
\* the cycle for every peer that was enabled (and outbound) and had no
\* connected FederationConnection when the cycle began.
C8_AttemptEveryCycle ==
    /\ monPc \in {"sleep", "done"} => cycPending = {}
    /\ mgrPc \in {"sleep", "done"} => cycPending = {}

\* A cycle that began with a peer in 'error' after a failed attempt has made
\* another attempt, which failed too.
C8_Witness ==
    /\ ev.op = "connect"
    /\ ~ev.ok
    /\ cycPending = {}
    /\ monPc = "iter" \/ mgrPc = "add"
    /\ running \/ mgrRunning

\* C9: a peer that is disabled with a live connection when a monitor cycle
\* begins has no entry in the connection map when that cycle ends.  The
\* statement fails: _monitor_loop visits the enabled peers only and sweeps
\* only entries that are not connected.
C9_DisabledRemoved ==
    (monPc \in {"sleep", "done"} /\ mgrPc \in {"init", "sleep", "done"}) =>
        \A p \in cycDisabled :
            \/ p \notin DOMAIN connections \cup DOMAIN mgrConnections
            \/ (p \in DOMAIN servers /\ servers[p].enabled)
            \/ (p \in DOMAIN federations /\ federations[p].enabled)

\* C19: a decodable bus message is acknowledged only when the for loop
\* has no entry left and a forward has been attempted for every connection
\* of the snapshot whose federation pushes CoT, whatever the forwards did.
C19_AckStep ==
    ev'.op = "ack" =>
        /\ busTodo = {}
        /\ \A p \in busSnap : PushesCot(p) => p \in busAttempted

C19_AckAfterAllForwards == [][C19_AckStep]_vars

\* An acknowledged message with two forwards attempted, one of which failed
\* and one of which left its connection connected.
C19_Witness ==
    /\ ev.op = "ack"
    /\ \E p, q \in busAttempted :
         /\ p # q
         /\ ~mgrConnections[p].connected
         /\ federations[p].connection_status = "error"
         /\ mgrConnections[q].connected

\* C20: a message that cannot be decoded is rejected with requeue = false
\* in a step that forwards to no peer, and a rejected message never comes
\* back to the queue.
C20_NackStep ==
    ev'.op = "nack" =>
        /\ poison = "queued"
        /\ ev'.ok = FALSE
        /\ poison' = "rejected"
        /\ UNCHANGED <<mgrConnections, federations, busPc, busTodo, busAttempted>>

C20_StaysRejected == poison = "rejected" => poison' = "rejected"

C20_PoisonRejected == [][C20_NackStep /\ C20_StaysRejected]_vars

\* A rejected poison message while the connection map is not empty.
C20_Witness ==
    /\ ev.op = "nack"
    /\ poison = "rejected"
    /\ \E p \in DOMAIN mgrConnections : PushesCot(p) /\ mgrConnections[p].connected

\* C23: once a monitor cycle has begun, connect() is called at most once
\* for a peer before the next cycle begins, whoever calls it.
C23_ConnectStep ==
    (ev'.op = "connect" /\ cycConnects.open /\ cycConnects'.open) =>
        ev'.peer \notin cycConnects.peers

C23_OncePerCycle == [][C23_ConnectStep]_vars

\* C26: a connect() that fails in a monitor cycle leaves the monitor in the
\* cycle with every other server of the cycle still to visit, and the
\* monitor loop has ended only if stop() has cleared running.
C26_FailureStep ==
    /\ (ev'.op = "connect" /\ monPc = "iter") =>
           (monPc' = "iter" /\ monTodo' = monTodo \ {ev'.peer})
    /\ (ev'.op = "connect" /\ mgrPc = "add") =>
           (mgrPc' = "add" /\ mgrTodo' = mgrTodo \ {ev'.peer})

C26_LoopSurvives ==
    /\ monPc = "done" => ~running
    /\ mgrPc = "done" => ~mgrRunning
    /\ (monPc = "sleep" /\ mgrPc \in {"init", "sleep"}) => cycPending = {}

C28_SuccessStep ==
    (ev'.op = "connect" /\ ev'.ok /\ ~ev'.was) =>
        /\ connObj'.connected
        /\ connRow'.status = "connected"
        /\ connRow'.last_connected = connObj'.socket
        /\ connRow'.last_connected # NeverConnected
        /\ connRow'.last_error = NoText
        /\ connObj'.loops >= connObj.loops + 3

C28_ConnectSuccess == [][C28_SuccessStep]_vars

\* C29: when a heartbeat interval has elapsed on a connected connection the
\* heartbeat loop is inside a write of the keep-alive to the socket, and the
\* heartbeat loop ends only when the connection is not connected or stopped.
C29_IntervalStep ==
    /\ ev'.op = "heartbeat" => thr'["hb"] = "write"
    /\ ("hb" \in DOMAIN thr /\ thr["hb"] # "done" /\ thr'["hb"] = "done")
           => ~LoopCondition(connObj)

C29_HeartbeatCadence == [][C29_IntervalStep]_vars

\* C32: the statistics a status request reports for a peer are counts of the
\* stored records of that peer: all of them, those with sent set, and as
\* pending those with sent not set, exhausted ones included; the live
\* connection does not enter.
RecordsOf(p) == {i \in 1..Len(outbound) : outbound[i].peer = p}

C32_StatusStep ==
    ev'.op = "status" =>
        /\ ev'.stats.total_changes = Cardinality(RecordsOf(ev'.peer))
        /\ ev'.stats.sent_changes =
               Cardinality({i \in RecordsOf(ev'.peer) : outbound[i].sent})
        /\ ev'.stats.pending_changes =
               Cardinality({i \in RecordsOf(ev'.peer) : ~outbound[i].sent})

C32_StatsFromRecords == [][C32_StatusStep]_vars

\* A status is reported for a peer that has a sent record and an unsent one
\* that has used up its retries, while the peer's connection is gone.
C32_Witness ==
    /\ ev.op = "status"
    /\ ~Connected(ev.peer)
    /\ \E i \in RecordsOf(ev.peer) : outbound[i].sent
    /\ \E i \in RecordsOf(ev.peer) :
          ~outbound[i].sent /\ outbound[i].retry_count = MaxRetries

\* C33: while the monitor is idle between two cycles, a peer whose persisted
\* status is 'connected' has a connected connection in the map.
C33_StatusAgrees ==
    (running /\ monPc = "sleep") =>
        \A p \in Peers : servers[p].status = "connected" => Connected(p)

\* C34: a connection of federation_manager.py that is connected holds a
\* socket, and the socket is open.
C34_ConnectedHasSocket ==
    (impl = "manager" /\ connObj.connected) =>
        /\ connObj.socket # NoSocket
        /\ sockets[connObj.socket] = "open"

\* C35: once every execution of queue_mission_change_for_federation has
\* returned, no (peer, change) pair has more than one record.
C35_UniqueAfterRace ==
    (\A w \in DOMAIN enq : enq[w].pc = "idle") =>
        \A p \in Peers, c \in Changes : Cardinality(RowsOf(p, c)) <= 1

\* C36: once stop() has returned and the monitor has ended, the map is
\* empty and no connection is connected or has loops that go on running.
C36_ServiceStopped ==
    (impl = "service" /\ ~running /\ monPc = "done") =>
        /\ connections = Empty
        /\ \A o \in detached : ~LoopCondition(o)

C36_ManagerStopped ==
    (impl = "manager" /\ ~mgrRunning /\ mgrPc = "done") =>
        /\ mgrConnections = Empty
        /\ \A p \in DOMAIN mgrConnections : ~mgrConnections[p].connected

C36_StopFinal == C36_ServiceStopped /\ C36_ManagerStopped

\* C37: a record becomes sent only in the step in which a sender loop of
\* its own peer completes the batch that holds it; a sent record stays sent
\* and keeps its retry_count; no record's retry_count decreases.
C37_RecordStep ==
    \A i \in Rows :
        /\ outbound[i].sent =>
               /\ outbound'[i].sent
               /\ outbound'[i].retry_count = outbound[i].retry_count
        /\ outbound'[i].retry_count >= outbound[i].retry_count
        /\ (~outbound[i].sent /\ outbound'[i].sent) =>
               \E o \in Objects :
                   o.peer = outbound[i].peer /\ o.send = "batch" /\ i \in BatchIds(o)

C37_SentMonotone == [][C37_RecordStep]_vars

\* C38: _on_message calls send_cot only for a federation that is enabled
\* at that time.
C38_AttemptStep ==
    \A p \in busAttempted' \ busAttempted :
        p \in DOMAIN federations /\ federations[p].enabled

C38_DisabledGetsNothing == [][C38_AttemptStep]_vars

\* C39: every message delivered to _on_message is settled exactly once: a
\* delivery whose forwarding loop is over leaves it by basic_ack, no basic_nack
\* is issued for a delivery whose basic_ack has been issued, and a basic_nack
\* is issued only for the undecodable message, which it settles.
C39_SettleStep ==
    /\ (busPc = "forward" /\ busPc' # "forward") => ev'.op = "ack"
    /\ ev'.op = "nack" => busPc = "idle" /\ poison = "queued" /\ poison' = "rejected"
    /\ ev'.op = "ack" => busPc' = "idle"

C39_SettledOnce == [][C39_SettleStep]_vars

\* disconnect() has returned for o: both flags are cleared and the socket is
\* closed, whether or not the bounded joins saw the loops end.
Disconnected(o) == ~o.running /\ ~o.connected /\ o.sock = "closed"

\* C31: stop() returns with every connection of the map disconnected, the
\* loops still alive left to themselves, and after it every loop of every
\* connection object that left the map exits.
C31_StopStep ==
    (running /\ ~running') =>
        /\ connections' = Empty
        /\ \A o \in detached' \ detached : Disconnected(o)

C31_CancellationTerminates ==
    /\ [][C31_StopStep]_vars
    /\ (~running /\ detached # {}) ~> (detached = {})

\* stop() has disconnected a connection whose three loops are still alive.
C31_Witness ==
    /\ ~running
    /\ \E o \in detached :
         /\ Disconnected(o)
         /\ o.send # "done"
         /\ o.recv # "done"
         /\ o.hb # "done"

\* The sender loop of o is between its query and the commit that ends the
\* 'with db.session.begin()' block, with rows still to pass to sendall().
SenderInTransaction(o) == o.send = "batch" /\ o.batch # {}

\* The monitor is inside the 'with db.session.begin()' block of its cycle
\* with a server left for which it will call connect().
MonitorInTransaction == monPc = "iter" /\ \E p \in monTodo : NeedsConnect(p)

\* C27: no thread is at a network call (sendall in the sender loop, connect
\* in the monitor) while a store transaction it began is uncommitted.
C27_NoTransactionAcrossNetwork ==
    /\ \A p \in DOMAIN connections : ~SenderInTransaction(connections[p])
    /\ \A o \in detached : ~SenderInTransaction(o)
    /\ ~MonitorInTransaction

\* stop() is running on its caller's thread: it clears running first.
StopStep == (running /\ ~running') \/ (mgrRunning /\ ~mgrRunning')

\* The monitor is between the query of a cycle and the end of its loops
\* over the map.
MonitorInCycle == monPc = "iter" \/ mgrPc \in {"remove", "add"}

\* C24: stop(), which iterates the map (and in the service clears it) on
\* its caller's thread, does not run while the monitor is inside a cycle,
\* where it iterates and mutates the map.
C24_StopStep == StopStep => ~MonitorInCycle

C24_MapExclusive == [][C24_StopStep]_vars

(***************************************************************************)
(* Properties of connect() and disconnect() (SpecConn, SpecConnFault)      *)
(***************************************************************************)

\* C15: connect() called on a connection that is connected returns success
\* and changes nothing: no new socket, no further loop, the same handle.
C15_ConnectStep ==
    (ev'.op = "connect" /\ ev'.was) =>
        /\ ev'.ok
        /\ sockets' = sockets
        /\ connObj' = connObj

C15_ConnectIdempotent == [][C15_ConnectStep]_vars

\* The socket the connection held when the call began is closed.
HeldSocketClosed ==
    connObj.socket # NoSocket => sockets'[connObj.socket] = "closed"

\* C16: disconnect() called in any state ends with running and connected
\* false, the socket closed and the persisted status 'disconnected'; a
\* second call right after the first changes nothing.
C16_DisconnectStep ==
    ev'.op = "disconnect" =>
        /\ ~connObj'.running
        /\ ~connObj'.connected
        /\ HeldSocketClosed
        /\ connObj'.socket # NoSocket => sockets'[connObj'.socket] = "closed"
        /\ connRow'.status = "disconnected"
        /\ ev.op = "disconnect" => UNCHANGED <<connObj, connRow, sockets>>

C16_DisconnectTotal == [][C16_DisconnectStep]_vars

\* disconnect() has returned on a connection that was not connected and
\* held an open socket, left by a connect() that failed.
C16_Witness ==
    /\ ev.op = "disconnect"
    /\ ~ev.was
    /\ connObj.socket # NoSocket
    /\ sockets[connObj.socket] = "closed"
    /\ connRow.status = "disconnected"
    /\ connRow.last_error = "connect"

\* C17 as stated: a connect() that returns False leaves the connection
\* not connected with no loop running, the persisted status 'error' and the
\* persisted last_error the text of the error.
C17_FailureStep ==
    (ev'.op = "connect" /\ ~ev'.ok) =>
        /\ ~connObj'.connected
        /\ connObj'.loops = 0
        /\ connRow'.status = "error"
        /\ connRow'.last_error = ev'.text

C17_FailureRecorded == [][C17_FailureStep]_vars

\* C17 as the code has it: a connect() that returns False on a connection
\* without running loops leaves it not connected and starts no loop; the
\* persisted row holds 'error' and the text of the error, or, when the
\* handler's own write raised, what it held before.
C17_AmendedStep ==
    (ev'.op = "connect" /\ ~ev'.ok) =>
        /\ ~connObj'.connected
        /\ connObj'.loops = connObj.loops
        /\ \/ /\ connRow'.status = "error"
              /\ connRow'.last_error = ev'.text
              /\ connRow'.last_connected = connRow.last_connected
           \/ storeFaults /\ connRow' = connRow

C17_FailureRecordedIfStored == [][C17_AmendedStep]_vars

\* connect() has failed at the status update and the handler's write has
\* raised as well: the row is as it was before the call.
C17_Witness ==
    /\ ev.op = "connect"
    /\ ~ev.ok
    /\ ev.text = "status"
    /\ connRow.status = "disconnected"
    /\ ~connObj.connected

(***************************************************************************)
(* Properties of the socket's writers (SpecLock)                           *)
(***************************************************************************)

Writers == {t \in DOMAIN thr : thr[t] = "write"}

C21_AttemptStep ==
    \A p \in busAttempted' \ busAttempted : MgrConnected(p) /\ PushesCot(p)

C21_OnlyConnectedPeers == [][C21_AttemptStep]_vars

(***************************************************************************)
(* Properties of send_cot (SpecConn)                                       *)
(***************************************************************************)

\* C22: a send_cot that returns False adds one to messages_failed and
\* leaves messages_sent; one that returns True adds one to messages_sent and
\* leaves messages_failed.
C22_CountStep ==
    ev'.op = "send_cot" =>
        counters' = IF ev'.ok
                    THEN [counters EXCEPT !.messages_sent = @ + 1]
                    ELSE [counters EXCEPT !.messages_failed = @ + 1]

C22_EveryResultCounted == [][C22_CountStep]_vars

====
